---- MODULE Spec2Model ----
(***************************************************************************)
(* Model of minio-to-gitops.py: the retry/timeout policy, the bucket       *)
(* scanner, the per-object validation gate, the path classifier and the    *)
(* main() pipeline with its exit statuses.                                 *)
(*                                                                         *)
(* Python strings are modelled as sequences of one-character strings, so   *)
(* that splitting, stripping, suffix extraction and substring tests are    *)
(* computed as the code computes them.                                     *)
(***************************************************************************)
EXTENDS Integers, Sequences, FiniteSets, TLC

(***************************************************************************)
(* Bounds of the model.                                                    *)
(***************************************************************************)
\* longest bucket listing explored by the scanner specification
MaxObjects == 3
\* longest bucket listing explored by the main() specification
MaxMainObjects == 2
\* largest batch size explored (Constants.MEMORY_BATCH_SIZE is 100)
MaxBatch == 2
\* largest max_attempts explored for the retry decorator
MaxAttempts == 4
\* longest list of environments given to the constructor
MaxEnvs == 2
\* most chunks in which the content of a file is written
MaxChunks == 3
\* most segments of an object key given to the path classifier
MaxSegments == 3
\* most documents in one manifest content
MaxDocs == 2
\* most environments of a generator whose overlays are planned
MaxOverlayEnvs == 4
\* most PersistentVolumeClaim files of one namespace
MaxPvcs == 2
\* most calls of scan_minio_bucket on one generator
MaxScans == 2
\* largest magnitude of a requested storage size
MaxMagnitude == 12
\* Constants.MAX_NAMESPACES (100 in the source), scaled down
MAX_NAMESPACES == 1
\* Constants.MAX_FILES_PER_NAMESPACE (1000 in the source), scaled down
MAX_FILES_PER_NAMESPACE == 1

(***************************************************************************)
(* Program constants.                                                      *)
(***************************************************************************)
MIN_PATH_PARTS == 2
MAX_NAMESPACE_LENGTH == 63
MAX_FILE_SIZE_MB == 50
MAX_KUBERNETES_NAME_LENGTH == 253
MIN_KUBERNETES_NAME_LENGTH == 1
MAX_RETRY_ATTEMPTS == 3

ALLOWED_YAML_EXTENSIONS ==
  { <<".", "y", "a", "m", "l">>, <<".", "y", "m", "l">> }

DANGEROUS_PATTERNS ==
  { <<"e", "v", "a", "l", "(">>,
    <<"e", "x", "e", "c", "(">>,
    <<"_", "_", "i", "m", "p", "o", "r", "t", "_", "_">>,
    <<"s", "u", "b", "p", "r", "o", "c", "e", "s", "s">>,
    <<"o", "s", ".", "s", "y", "s", "t", "e", "m">>,
    <<"$", "{">>,
    <<"{", "{">> }

(***************************************************************************)
(* The exception hierarchy (class statements at the top of the file).      *)
(***************************************************************************)
ExceptionParent(cls) ==
  CASE cls = "FileSizeError" -> "ValidationError"
    [] cls = "ContentValidationError" -> "ValidationError"
    [] cls = "TimeoutError" -> "NetworkError"
    [] cls = "RetryExhaustedError" -> "NetworkError"
    [] cls \in {"ConfigurationError", "MinioConnectionError", "YAMLProcessingError",
                "PathValidationError", "NamespaceValidationError",
                "StorageConfigurationError", "ValidationError", "SecurityError",
                "NetworkError"} -> "MinioGitOpsError"
    [] cls \in {"MinioGitOpsError", "S3Error", "OSError", "TypeError",
                "KeyError"} -> "Exception"
    [] cls = "Exception" -> "BaseException"
    [] cls = "KeyboardInterrupt" -> "BaseException"
    [] OTHER -> "BaseException"

RECURSIVE IsInstance(_, _)
\* isinstance(e, cls) for an exception whose class is named e
IsInstance(e, cls) ==
  IF e = cls THEN TRUE
  ELSE IF e = "BaseException" THEN FALSE
  ELSE IsInstance(ExceptionParent(e), cls)

(***************************************************************************)
(* String helpers: what the str and pathlib methods used by the code do.   *)
(***************************************************************************)
LowerChar(c) ==
  CASE c = "A" -> "a" [] c = "B" -> "b" [] c = "C" -> "c" [] c = "D" -> "d"
    [] c = "E" -> "e" [] c = "F" -> "f" [] c = "G" -> "g" [] c = "H" -> "h"
    [] c = "I" -> "i" [] c = "J" -> "j" [] c = "K" -> "k" [] c = "L" -> "l"
    [] c = "M" -> "m" [] c = "N" -> "n" [] c = "O" -> "o" [] c = "P" -> "p"
    [] c = "Q" -> "q" [] c = "R" -> "r" [] c = "S" -> "s" [] c = "T" -> "t"
    [] c = "U" -> "u" [] c = "V" -> "v" [] c = "W" -> "w" [] c = "X" -> "x"
    [] c = "Y" -> "y" [] c = "Z" -> "z" [] OTHER -> c

\* str.lower()
Lower(s) == [i \in 1..Len(s) |-> LowerChar(s[i])]

\* p occurs in s at position i
OccursAt(p, s, i) ==
  /\ i >= 1
  /\ i + Len(p) - 1 <= Len(s)
  /\ \A j \in 1..Len(p) : s[i + j - 1] = p[j]

\* the Python test `p in s`
Contains(s, p) == \E i \in 1..(Len(s) + 1) : OccursAt(p, s, i)

RECURSIVE StrReplaceFrom(_, _, _)
\* s[i..].replace(old, ''), scanning left to right without overlap
StrReplaceFrom(s, old, i) ==
  LET found == {j \in i..Len(s) : Len(old) > 0 /\ OccursAt(old, s, j)}
  IN IF found = {} THEN SubSeq(s, i, Len(s))
     ELSE LET j == CHOOSE k \in found : \A m \in found : k <= m
          IN SubSeq(s, i, j - 1) \o StrReplaceFrom(s, old, j + Len(old))

\* s.replace(old, '')
StrRemove(s, old) == StrReplaceFrom(s, old, 1)

\* s.replace('\\', '/')
BackslashToSlash(s) == [i \in 1..Len(s) |-> IF s[i] = "\\" THEN "/" ELSE s[i]]

RECURSIVE LStrip(_, _)
LStrip(s, ch) == IF Len(s) > 0 /\ Head(s) = ch THEN LStrip(Tail(s), ch) ELSE s

RECURSIVE RStrip(_, _)
RStrip(s, ch) ==
  IF Len(s) > 0 /\ s[Len(s)] = ch THEN RStrip(SubSeq(s, 1, Len(s) - 1), ch) ELSE s

\* s.strip('/')
Strip(s, ch) == RStrip(LStrip(s, ch), ch)

RECURSIVE SplitFrom(_, _, _, _)
\* s.split(sep) from position i, cur being the segment read so far
SplitFrom(s, sep, i, cur) ==
  LET found == {j \in i..Len(s) : s[j] = sep}
  IN IF found = {} THEN <<cur \o SubSeq(s, i, Len(s))>>
     ELSE LET j == CHOOSE k \in found : \A m \in found : k <= m
          IN <<cur \o SubSeq(s, i, j - 1)>> \o SplitFrom(s, sep, j + 1, <<>>)

Split(s, sep) == SplitFrom(s, sep, 1, <<>>)

\* the segments of q that PurePosixPath keeps: not empty and not '.'
RECURSIVE FilterSegments(_)
FilterSegments(q) ==
  IF q = <<>> THEN <<>>
  ELSE IF Head(q) = <<>> \/ Head(q) = <<".">>
       THEN FilterSegments(Tail(q))
       ELSE <<Head(q)>> \o FilterSegments(Tail(q))

\* number of leading '/' characters
LeadingSlashes(s) == Len(s) - Len(LStrip(s, "/"))

\* PurePosixPath(s).parts: empty and '.' segments are dropped, a leading
\* '/' is the root part (exactly two leading slashes are kept as '//')
PosixParts(s) ==
  LET root == IF LeadingSlashes(s) = 0 THEN <<>>
              ELSE IF LeadingSlashes(s) = 2 THEN << <<"/", "/">> >>
              ELSE << <<"/">> >>
  IN root \o FilterSegments(Split(s, "/"))

\* Path(s).name: the last part, '' for a path that is only a root
PathName(s) ==
  LET segs == FilterSegments(Split(s, "/"))
  IN IF segs = <<>> THEN <<>> ELSE segs[Len(segs)]

\* index of the last '.' of s, 0 if none
LastDot(s) ==
  IF \E i \in 1..Len(s) : s[i] = "."
  THEN CHOOSE i \in 1..Len(s) : s[i] = "." /\ \A j \in (i + 1)..Len(s) : s[j] # "."
  ELSE 0

\* Path(s).suffix: from the last '.' of the name, unless the name starts
\* or ends with that dot
PathSuffix(s) ==
  LET name == PathName(s)
      i == LastDot(name)
  IN IF 1 < i /\ i < Len(name) THEN SubSeq(name, i, Len(name)) ELSE <<>>

LowerAlnum ==
  {"a", "b", "c", "d", "e", "f", "g", "h", "i", "j", "k", "l", "m", "n", "o",
   "p", "q", "r", "s", "t", "u", "v", "w", "x", "y", "z",
   "0", "1", "2", "3", "4", "5", "6", "7", "8", "9"}

\* the whole of s is [a-z0-9]([-a-z0-9]*[a-z0-9])?
IsDnsLabelBody(s) ==
  /\ Len(s) >= 1
  /\ s[1] \in LowerAlnum
  /\ s[Len(s)] \in LowerAlnum
  /\ \A i \in 1..Len(s) : s[i] \in LowerAlnum \cup {"-"}

\* re.match(r'^[a-z0-9]([-a-z0-9]*[a-z0-9])?$', s): '$' also matches just
\* before a newline that ends the string
MatchesNameRegex(s) ==
  \/ IsDnsLabelBody(s)
  \/ /\ Len(s) >= 2
     /\ s[Len(s)] = "\n"
     /\ IsDnsLabelBody(SubSeq(s, 1, Len(s) - 1))

(***************************************************************************)
(* Validation gate (pure parts).  A validator yields "ok" or the name of   *)
(* the exception class it raises.                                          *)
(***************************************************************************)
\* _validate_file_size: FileSizeError above MAX_FILE_SIZE_MB mebibytes
_validate_file_size(file_size) ==
  IF file_size > MAX_FILE_SIZE_MB * 1024 * 1024 THEN "FileSizeError" ELSE "ok"

\* _validate_filename: empty name, extension, dangerous patterns, in that order
_validate_filename(filename) ==
  IF filename = <<>> THEN "ValidationError"
  ELSE IF Lower(PathSuffix(filename)) \notin ALLOWED_YAML_EXTENSIONS
       THEN "ValidationError"
  ELSE IF \E pattern \in DANGEROUS_PATTERNS : Contains(Lower(filename), pattern)
       THEN "SecurityError"
  ELSE "ok"

\* _is_valid_namespace_name
_is_valid_namespace_name(name) ==
  /\ ~(Len(name) > MAX_NAMESPACE_LENGTH)
  /\ MatchesNameRegex(name)

\* _validate_kubernetes_name
_validate_kubernetes_name(name) ==
  IF name = <<>> THEN "ValidationError"
  ELSE IF Len(name) < MIN_KUBERNETES_NAME_LENGTH THEN "ValidationError"
  ELSE IF Len(name) > MAX_KUBERNETES_NAME_LENGTH THEN "ValidationError"
  ELSE IF ~MatchesNameRegex(name) THEN "ValidationError"
  ELSE "ok"

(***************************************************************************)
(* Path classifier.                                                        *)
(***************************************************************************)
\* path_parts of _safe_parse_path: prefix removed, '/' stripped,
\* backslashes normalised, PurePosixPath parts
PathPartsOf(object_path, prefix) ==
  PosixParts(BackslashToSlash(Strip(StrRemove(object_path, prefix), "/")))

\* the exception raised inside the try block of _safe_parse_path
\* ("none" when the block reaches a return statement)
ParsePathRaised(object_path, prefix) ==
  LET path_parts == PathPartsOf(object_path, prefix)
  IN IF Len(path_parts) < MIN_PATH_PARTS THEN "PathValidationError"
     ELSE LET namespace == path_parts[Len(path_parts) - 1]
              filename == path_parts[Len(path_parts)]
          IN IF namespace = <<>> \/ filename = <<>> THEN "none"
             ELSE IF ~_is_valid_namespace_name(namespace)
                  THEN "NamespaceValidationError"
             ELSE "none"

\* the value Python's None stands for in the result of _safe_parse_path
NoPath == [none |-> TRUE, namespace |-> <<>>, filename |-> <<>>]

\* _safe_parse_path: every exception of the try block is caught by
\* `except Exception` and turned into None
_safe_parse_path(object_path, prefix) ==
  LET path_parts == PathPartsOf(object_path, prefix)
  IN IF ParsePathRaised(object_path, prefix) # "none" THEN NoPath
     ELSE LET namespace == path_parts[Len(path_parts) - 1]
              filename == path_parts[Len(path_parts)]
          IN IF namespace = <<>> \/ filename = <<>> THEN NoPath
             ELSE [none |-> FALSE, namespace |-> namespace, filename |-> filename]

\* the filename keyword table of _categorize_by_filename, in dict order
patterns ==
  << [category |-> <<"d", "e", "p", "l", "o", "y", "m", "e", "n", "t", "s">>,
      keywords |-> {<<"d", "e", "p", "l", "o", "y">>,
                   <<"d", "e", "p", "l", "o", "y", "m", "e", "n", "t">>}],
     [category |-> <<"s", "e", "r", "v", "i", "c", "e", "s">>,
      keywords |-> {<<"s", "e", "r", "v", "i", "c", "e">>,
                   <<"s", "v", "c">>}],
     [category |-> <<"c", "o", "n", "f", "i", "g", "m", "a", "p", "s">>,
      keywords |-> {<<"c", "o", "n", "f", "i", "g">>,
                   <<"c", "m">>,
                   <<"c", "o", "n", "f", "i", "g", "m", "a", "p">>}],
     [category |-> <<"s", "e", "c", "r", "e", "t", "s">>,
      keywords |-> {<<"s", "e", "c", "r", "e", "t">>}],
     [category |-> <<"p", "e", "r", "s", "i", "s", "t", "e", "n", "t", "v", "o", "l", "u", "m", "e", "c", "l", "a", "i", "m", "s">>,
      keywords |-> {<<"p", "v", "c">>,
                   <<"p", "e", "r", "s", "i", "s", "t", "e", "n", "t">>,
                   <<"v", "o", "l", "u", "m", "e">>,
                   <<"c", "l", "a", "i", "m">>}],
     [category |-> <<"r", "o", "u", "t", "e", "s">>,
      keywords |-> {<<"r", "o", "u", "t", "e">>}],
     [category |-> <<"i", "n", "g", "r", "e", "s", "s">>,
      keywords |-> {<<"i", "n", "g", "r", "e", "s", "s">>}],
     [category |-> <<"c", "r", "o", "n", "j", "o", "b", "s">>,
      keywords |-> {<<"c", "r", "o", "n">>,
                   <<"c", "r", "o", "n", "j", "o", "b">>}],
     [category |-> <<"j", "o", "b", "s">>,
      keywords |-> {<<"j", "o", "b">>}],
     [category |-> <<"h", "p", "a">>,
      keywords |-> {<<"h", "p", "a">>,
                   <<"a", "u", "t", "o", "s", "c", "a", "l">>,
                   <<"h", "o", "r", "i", "z", "o", "n", "t", "a", "l">>}],
     [category |-> <<"i", "m", "a", "g", "e", "s", "t", "r", "e", "a", "m", "s">>,
      keywords |-> {<<"i", "m", "a", "g", "e">>,
                   <<"s", "t", "r", "e", "a", "m">>,
                   <<"i", "m", "a", "g", "e", "s", "t", "r", "e", "a", "m">>}],
     [category |-> <<"n", "e", "t", "w", "o", "r", "k", "p", "o", "l", "i", "c", "i", "e", "s">>,
      keywords |-> {<<"n", "e", "t", "w", "o", "r", "k">>,
                   <<"p", "o", "l", "i", "c", "y">>,
                   <<"n", "e", "t", "p", "o", "l">>}],
     [category |-> <<"s", "t", "a", "t", "e", "f", "u", "l", "s", "e", "t", "s">>,
      keywords |-> {<<"s", "t", "a", "t", "e", "f", "u", "l">>,
                   <<"s", "t", "s">>}],
     [category |-> <<"d", "a", "e", "m", "o", "n", "s", "e", "t", "s">>,
      keywords |-> {<<"d", "a", "e", "m", "o", "n">>,
                   <<"d", "s">>}],
     [category |-> <<"r", "e", "p", "l", "i", "c", "a", "s", "e", "t", "s">>,
      keywords |-> {<<"r", "e", "p", "l", "i", "c", "a">>,
                   <<"r", "s">>}],
     [category |-> <<"p", "o", "d", "s">>,
      keywords |-> {<<"p", "o", "d">>}],
     [category |-> <<"n", "a", "m", "e", "s", "p", "a", "c", "e", "s">>,
      keywords |-> {<<"n", "a", "m", "e", "s", "p", "a", "c", "e">>,
                   <<"n", "s">>}],
     [category |-> <<"r", "o", "l", "e", "s">>,
      keywords |-> {<<"r", "o", "l", "e">>}],
     [category |-> <<"r", "o", "l", "e", "b", "i", "n", "d", "i", "n", "g", "s">>,
      keywords |-> {<<"r", "o", "l", "e", "b", "i", "n", "d">>,
                   <<"b", "i", "n", "d", "i", "n", "g">>}],
     [category |-> <<"s", "e", "r", "v", "i", "c", "e", "a", "c", "c", "o", "u", "n", "t", "s">>,
      keywords |-> {<<"s", "e", "r", "v", "i", "c", "e", "a", "c", "c", "o", "u", "n", "t">>,
                   <<"s", "a">>}] >>

RECURSIVE FirstPatternFrom(_, _)
\* the first category, from index i on, one of whose keywords occurs in the name
FirstPatternFrom(filename_lower, i) ==
  IF i > Len(patterns) THEN <<"o", "t", "h", "e", "r">>
  ELSE IF \E keyword \in patterns[i].keywords : Contains(filename_lower, keyword)
       THEN patterns[i].category
       ELSE FirstPatternFrom(filename_lower, i + 1)

\* _categorize_by_filename
_categorize_by_filename(filename) == FirstPatternFrom(Lower(filename), 1)

\* _categorize_resource called without file content, as the scanner does
_categorize_resource(filename) == _categorize_by_filename(filename)

(***************************************************************************)
(* Categorisation by manifest content.  A content is what the file holds   *)
(* as far as the code looks at it: whether it is blank, a piece of its     *)
(* text, whether yaml.safe_load_all fails on it, and the documents it      *)
(* parses to (for each: whether it is null, its kind if it has one, and    *)
(* whether its nesting exceeds what _validate_yaml_structure allows).      *)
(***************************************************************************)
\* kind_mapping of _categorize_by_yaml_content (lines 847-870)
kind_mapping ==
  <<
     [kind |-> <<"d", "e", "p", "l", "o", "y", "m", "e", "n", "t">>,
      category |-> <<"d", "e", "p", "l", "o", "y", "m", "e", "n", "t", "s">>],
     [kind |-> <<"s", "e", "r", "v", "i", "c", "e">>,
      category |-> <<"s", "e", "r", "v", "i", "c", "e", "s">>],
     [kind |-> <<"c", "o", "n", "f", "i", "g", "m", "a", "p">>,
      category |-> <<"c", "o", "n", "f", "i", "g", "m", "a", "p", "s">>],
     [kind |-> <<"s", "e", "c", "r", "e", "t">>,
      category |-> <<"s", "e", "c", "r", "e", "t", "s">>],
     [kind |-> <<"p", "e", "r", "s", "i", "s", "t", "e", "n", "t", "v", "o", "l", "u", "m", "e", "c", "l", "a", "i", "m">>,
      category |-> <<"p", "e", "r", "s", "i", "s", "t", "e", "n", "t", "v", "o", "l", "u", "m", "e", "c", "l", "a", "i", "m", "s">>],
     [kind |-> <<"r", "o", "u", "t", "e">>,
      category |-> <<"r", "o", "u", "t", "e", "s">>],
     [kind |-> <<"i", "n", "g", "r", "e", "s", "s">>,
      category |-> <<"i", "n", "g", "r", "e", "s", "s">>],
     [kind |-> <<"c", "r", "o", "n", "j", "o", "b">>,
      category |-> <<"c", "r", "o", "n", "j", "o", "b", "s">>],
     [kind |-> <<"j", "o", "b">>,
      category |-> <<"j", "o", "b", "s">>],
     [kind |-> <<"h", "o", "r", "i", "z", "o", "n", "t", "a", "l", "p", "o", "d", "a", "u", "t", "o", "s", "c", "a", "l", "e", "r">>,
      category |-> <<"h", "p", "a">>],
     [kind |-> <<"i", "m", "a", "g", "e", "s", "t", "r", "e", "a", "m">>,
      category |-> <<"i", "m", "a", "g", "e", "s", "t", "r", "e", "a", "m", "s">>],
     [kind |-> <<"n", "e", "t", "w", "o", "r", "k", "p", "o", "l", "i", "c", "y">>,
      category |-> <<"n", "e", "t", "w", "o", "r", "k", "p", "o", "l", "i", "c", "i", "e", "s">>],
     [kind |-> <<"s", "t", "a", "t", "e", "f", "u", "l", "s", "e", "t">>,
      category |-> <<"s", "t", "a", "t", "e", "f", "u", "l", "s", "e", "t", "s">>],
     [kind |-> <<"d", "a", "e", "m", "o", "n", "s", "e", "t">>,
      category |-> <<"d", "a", "e", "m", "o", "n", "s", "e", "t", "s">>],
     [kind |-> <<"r", "e", "p", "l", "i", "c", "a", "s", "e", "t">>,
      category |-> <<"r", "e", "p", "l", "i", "c", "a", "s", "e", "t", "s">>],
     [kind |-> <<"p", "o", "d">>,
      category |-> <<"p", "o", "d", "s">>],
     [kind |-> <<"n", "a", "m", "e", "s", "p", "a", "c", "e">>,
      category |-> <<"n", "a", "m", "e", "s", "p", "a", "c", "e", "s">>],
     [kind |-> <<"r", "o", "l", "e">>,
      category |-> <<"r", "o", "l", "e", "s">>],
     [kind |-> <<"r", "o", "l", "e", "b", "i", "n", "d", "i", "n", "g">>,
      category |-> <<"r", "o", "l", "e", "b", "i", "n", "d", "i", "n", "g", "s">>],
     [kind |-> <<"c", "l", "u", "s", "t", "e", "r", "r", "o", "l", "e">>,
      category |-> <<"c", "l", "u", "s", "t", "e", "r", "r", "o", "l", "e", "s">>],
     [kind |-> <<"c", "l", "u", "s", "t", "e", "r", "r", "o", "l", "e", "b", "i", "n", "d", "i", "n", "g">>,
      category |-> <<"c", "l", "u", "s", "t", "e", "r", "r", "o", "l", "e", "b", "i", "n", "d", "i", "n", "g", "s">>],
     [kind |-> <<"s", "e", "r", "v", "i", "c", "e", "a", "c", "c", "o", "u", "n", "t">>,
      category |-> <<"s", "e", "r", "v", "i", "c", "e", "a", "c", "c", "o", "u", "n", "t", "s">>]
  >>

\* the category 'other'
OTHER_CATEGORY == <<"o", "t", "h", "e", "r">>

\* kind_mapping[kind], for a kind that is a key
KindCategory(kind) ==
  LET i == CHOOSE j \in 1..Len(kind_mapping) : kind_mapping[j].kind = kind
  IN kind_mapping[i].category

\* `kind in kind_mapping`
KindIsMapped(kind) == \E j \in 1..Len(kind_mapping) : kind_mapping[j].kind = kind

\* _validate_yaml_content (lines 471-486) on a content
_validate_yaml_content(content) ==
  IF content.blank THEN "ContentValidationError"
  ELSE IF \E pattern \in DANGEROUS_PATTERNS : Contains(Lower(content.text), pattern)
       THEN "SecurityError"
       ELSE "ok"

RECURSIVE CategorizeDocsFrom(_, _)
\* lines 837-875: the loop over the documents from the i-th on
CategorizeDocsFrom(docs, i) ==
  IF i > Len(docs) THEN [raised |-> "none", value |-> OTHER_CATEGORY]
  ELSE IF docs[i].null \/ ~docs[i].has_kind THEN CategorizeDocsFrom(docs, i + 1)
  ELSE IF docs[i].deep THEN [raised |-> "ValidationError", value |-> <<>>]
  ELSE IF KindIsMapped(Lower(docs[i].kind))
       THEN [raised |-> "none", value |-> KindCategory(Lower(docs[i].kind))]
       ELSE CategorizeDocsFrom(docs, i + 1)

\* _categorize_by_yaml_content: the category, or the exception that leaves it
_categorize_by_yaml_content(content) ==
  IF _validate_yaml_content(content) # "ok"
  THEN [raised |-> _validate_yaml_content(content), value |-> <<>>]
  ELSE IF content.malformed THEN [raised |-> "none", value |-> OTHER_CATEGORY]
  ELSE CategorizeDocsFrom(content.docs, 1)

\* _categorize_resource (lines 815-828) with a file content; a content that
\* is absent or the empty string is not analysed (line 819)
CategorizeWithContent(filename, content) ==
  IF content.absent THEN _categorize_by_filename(filename)
  ELSE LET c == _categorize_by_yaml_content(content)
       IN IF c.raised = "none" /\ c.value # OTHER_CATEGORY THEN c.value
          ELSE _categorize_by_filename(filename)

(***************************************************************************)
(* The manifest sanitizer: KubernetesYAMLCleaner of advanced_yaml_cleanup   *)
(* and the built-in fallback of the generator.  A document is a function    *)
(* from its keys to its values; nested mappings are functions again.        *)
(***************************************************************************)
\* dict.pop(key, None)
Pop(d, key) == [k \in DOMAIN d \ {key} |-> d[k]]

\* dict.pop(key, None) for each of the keys
PopAll(d, keys) == [k \in DOMAIN d \ keys |-> d[k]]

\* d[key] = value
Put(d, key, value) == [k \in DOMAIN d \cup {key} |-> IF k = key THEN value ELSE d[k]]

\* class constants of KubernetesYAMLCleaner (lines 16-38)
METADATA_BLACKLIST ==
  { "uid", "resourceVersion", "generation", "creationTimestamp",
    "deletionTimestamp", "deletionGracePeriodSeconds", "managedFields",
    "selfLink", "finalizers", "ownerReferences" }

ANNOTATION_BLACKLIST ==
  { "kubectl.kubernetes.io/last-applied-configuration",
    "deployment.kubernetes.io/revision",
    "control-plane.alpha.kubernetes.io/leader",
    "pv.kubernetes.io/bind-completed",
    "pv.kubernetes.io/bound-by-controller",
    "volume.beta.kubernetes.io/storage-provisioner",
    "volume.kubernetes.io/storage-provisioner" }

LABEL_BLACKLIST ==
  { "pod-template-hash", "controller-revision-hash",
    "statefulset.kubernetes.io/pod-name" }

\* RESOURCE_SPECIFIC_CLEANUP (lines 41-60)
RESOURCE_SPECIFIC_CLEANUP ==
  [ Service |-> [spec |-> {"clusterIP", "clusterIPs", "internalTrafficPolicy",
                           "externalTrafficPolicy"}],
    PersistentVolumeClaim |-> [spec |-> {"volumeName"}, metadata |-> {"finalizers"}],
    Deployment |-> [spec |-> {"revisionHistoryLimit"}, metadata |-> {"generation"}],
    Pod |-> [spec |-> {"nodeName", "serviceAccount"}, metadata |-> {"generateName"}],
    ReplicaSet |-> [metadata |-> {"ownerReferences"}] ]

\* _clean_dict (lines 210-215), on a mapping
_clean_dict(d, blacklist) == PopAll(d, blacklist)

\* _clean_metadata with the test for an empty annotations mapping made
\* before the annotations are cleaned instead of after
CleanMetadataEmptyTestFirst(metadata, preserve_fields) ==
  LET m1 == PopAll(metadata, METADATA_BLACKLIST \ preserve_fields)
      m2 == IF "annotations" \in DOMAIN m1
            THEN IF DOMAIN m1["annotations"] = {}
                 THEN Pop(m1, "annotations")
                 ELSE Put(m1, "annotations",
                          _clean_dict(m1["annotations"], ANNOTATION_BLACKLIST))
            ELSE m1
  IN IF "labels" \in DOMAIN m2 /\ DOMAIN m2["labels"] # {}
     THEN Put(m2, "labels", _clean_dict(m2["labels"], LABEL_BLACKLIST))
     ELSE m2

\* _clean_metadata (lines 167-194), on a mapping
_clean_metadata(metadata, preserve_fields) ==
  LET m1 == PopAll(metadata, METADATA_BLACKLIST \ preserve_fields)
      m2 == IF "annotations" \in DOMAIN m1 /\ DOMAIN m1["annotations"] # {}
            THEN LET cleaned == _clean_dict(m1["annotations"], ANNOTATION_BLACKLIST)
                 IN IF DOMAIN cleaned = {}
                    THEN Pop(m1, "annotations")
                    ELSE Put(m1, "annotations", cleaned)
            ELSE m1
  IN IF "labels" \in DOMAIN m2 /\ DOMAIN m2["labels"] # {}
     THEN Put(m2, "labels", _clean_dict(m2["labels"], LABEL_BLACKLIST))
     ELSE m2

\* _clean_spec (lines 196-208), on a mapping
_clean_spec(spec, kind, preserve_fields) ==
  IF kind \in DOMAIN RESOURCE_SPECIFIC_CLEANUP
     /\ "spec" \in DOMAIN RESOURCE_SPECIFIC_CLEANUP[kind]
  THEN PopAll(spec, RESOURCE_SPECIFIC_CLEANUP[kind]["spec"] \ preserve_fields)
  ELSE spec

\* _resource_specific_cleanup (lines 217-267); without a spec the pops act on
\* a fresh mapping that is dropped
_resource_specific_cleanup(doc, kind, preserve_fields) ==
  IF "spec" \notin DOMAIN doc THEN doc
  ELSE LET spec == doc["spec"]
       IN CASE kind = "Service" ->
                 LET s1 == PopAll(spec, {"clusterIP", "clusterIPs"})
                 IN Put(doc, "spec",
                        IF "type" \in DOMAIN s1 /\ s1["type"] = "LoadBalancer"
                        THEN Pop(s1, "healthCheckNodePort")
                        ELSE s1)
            [] kind = "PersistentVolumeClaim" ->
                 LET s1 == Pop(spec, "volumeName")
                 IN Put(doc, "spec",
                        IF "volumeMode" \in DOMAIN s1 /\ s1["volumeMode"] = "Filesystem"
                        THEN Pop(s1, "volumeMode")
                        ELSE s1)
            [] kind = "Deployment" ->
                 LET s1 == Pop(spec, "observedGeneration")
                 IN Put(doc, "spec",
                        IF "template" \in DOMAIN s1
                           /\ "metadata" \in DOMAIN s1["template"]
                        THEN Put(s1, "template",
                                 Put(s1["template"], "metadata",
                                     _clean_metadata(s1["template"]["metadata"],
                                                     preserve_fields)))
                        ELSE s1)
            [] OTHER -> doc

\* clean_document (lines 131-165), on a mapping
clean_document(doc, preserve_fields) ==
  IF "apiVersion" \notin DOMAIN doc \/ "kind" \notin DOMAIN doc THEN doc
  ELSE LET kind == doc["kind"]
           d1 == Pop(doc, "status")
           d2 == IF "metadata" \in DOMAIN d1
                 THEN Put(d1, "metadata", _clean_metadata(d1["metadata"], preserve_fields))
                 ELSE d1
           d3 == IF "spec" \in DOMAIN d2 /\ kind \in DOMAIN RESOURCE_SPECIFIC_CLEANUP
                 THEN Put(d2, "spec", _clean_spec(d2["spec"], kind, preserve_fields))
                 ELSE d2
       IN _resource_specific_cleanup(d3, kind, preserve_fields)

\* metadata_to_remove of _builtin_cleanup_k8s_metadata (lines 1031-1034)
metadata_to_remove ==
  { "uid", "resourceVersion", "generation", "creationTimestamp",
    "managedFields", "selfLink", "finalizers", "ownerReferences" }

\* the loop body of _builtin_cleanup_k8s_metadata (lines 1029-1047)
BuiltinCleanDocument(doc) ==
  LET d1 == IF "metadata" \in DOMAIN doc
            THEN Put(doc, "metadata", PopAll(doc["metadata"], metadata_to_remove))
            ELSE doc
      d2 == Pop(d1, "status")
      kind == IF "kind" \in DOMAIN d2 THEN d2["kind"] ELSE ""
  IN IF kind = "Service" /\ "spec" \in DOMAIN d2
     THEN Put(d2, "spec", PopAll(d2["spec"], {"clusterIP", "clusterIPs"}))
     ELSE IF kind = "PersistentVolumeClaim" /\ "spec" \in DOMAIN d2
          THEN Put(d2, "spec", Pop(d2["spec"], "volumeName"))
          ELSE d2

\* _cleanup_k8s_metadata (lines 983-996) on one document: the advanced
\* cleaner when it can be imported, else the built-in cleanup
CleanupDocument(doc, advanced, preserve_fields) ==
  IF advanced THEN clean_document(doc, preserve_fields) ELSE BuiltinCleanDocument(doc)

(***************************************************************************)
(* ProcessingResult, the ledger.                                           *)
(***************************************************************************)
\* ProcessingResult(): four empty lists
ProcessingResult ==
  [success_files |-> <<>>, failed_files |-> <<>>, warnings |-> <<>>,
   namespaces_found |-> <<>>]

add_success(r, filename) ==
  [r EXCEPT !.success_files = Append(@, filename)]

\* error is the exception class, cause the error it wraps ("none" if none)
add_failure(r, filename, error, cause) ==
  [r EXCEPT !.failed_files =
     Append(@, [filename |-> filename, error |-> error, cause |-> cause])]

add_warning(r, message) ==
  [r EXCEPT !.warnings = Append(@, message)]

has_failures(r) == Len(r.failed_files) > 0

(***************************************************************************)
(* namespace_resources: a dict of dicts of lists, kept in insertion order. *)
(***************************************************************************)
\* the keys of a dict held as a sequence of [key, value] records
DictKeys(d) == {d[i].key : i \in 1..Len(d)}

\* position of key k in d (k is a key of d)
DictIndex(d, k) == CHOOSE i \in 1..Len(d) : d[i].key = k

\* d[k]
DictGet(d, k) == d[DictIndex(d, k)].value

\* d[k] = v
DictSet(d, k, v) ==
  IF k \in DictKeys(d)
  THEN [d EXCEPT ![DictIndex(d, k)].value = v]
  ELSE Append(d, [key |-> k, value |-> v])

\* lines 660-670 of _process_object_batch: create the namespace and the
\* category on first use, then append the filename
AddResource(nsr, namespace, resource_type, filename) ==
  LET withNs == IF namespace \in DictKeys(nsr) THEN nsr
                ELSE DictSet(nsr, namespace, <<>>)
      cats == DictGet(withNs, namespace)
      withCat == IF resource_type \in DictKeys(cats) THEN cats
                 ELSE DictSet(cats, resource_type, <<>>)
  IN DictSet(withNs, namespace,
             DictSet(withCat, resource_type,
                     Append(DictGet(withCat, resource_type), filename)))

\* _validate_namespace_limits: len(files) is the length of the namespace's
\* category dict
_validate_namespace_limits(namespaces) ==
  IF Len(namespaces) > MAX_NAMESPACES THEN "ValidationError"
  ELSE IF \E i \in 1..Len(namespaces) :
            Len(namespaces[i].value) > MAX_FILES_PER_NAMESPACE
       THEN "ValidationError"
  ELSE "ok"

\* lines 616-629: one NamespaceConfig per entry of namespace_resources
ToNamespaceConfigs(nsr) ==
  [i \in 1..Len(nsr) |-> [name |-> nsr[i].key, resources |-> nsr[i].value]]

(***************************************************************************)
(* What the try block of _process_object_batch does with one object.       *)
(***************************************************************************)
\* kind is "failure" (an exception reached `except Exception`), "warning"
\* (the invalid-path skip) or "success"
ObjectOutcome(obj, prefix) ==
  LET name == obj.object_name
      path_result == _safe_parse_path(name, prefix)
      fail(e) == [kind |-> "failure", error |-> e, namespace |-> <<>>,
                  filename |-> <<>>, resource_type |-> <<>>]
  IN IF _validate_filename(name) # "ok" THEN fail(_validate_filename(name))
     ELSE IF obj.size # 0 /\ _validate_file_size(obj.size) # "ok"
          THEN fail(_validate_file_size(obj.size))
     ELSE IF path_result.none
          THEN [kind |-> "warning", error |-> "none", namespace |-> <<>>,
                filename |-> <<>>, resource_type |-> <<>>]
     ELSE IF _validate_kubernetes_name(path_result.namespace) # "ok"
          THEN fail(_validate_kubernetes_name(path_result.namespace))
     ELSE [kind |-> "success", error |-> "none",
           namespace |-> path_result.namespace,
           filename |-> path_result.filename,
           resource_type |-> _categorize_resource(path_result.filename)]

(***************************************************************************)
(* State.                                                                  *)
(***************************************************************************)
VARIABLES
  listing,          \* what minio_client.list_objects yields, in order
  bucket_prefix,    \* self.bucket_prefix
  batch_size,       \* batch_size of scan_minio_bucket
  retry,            \* the running retry_with_exponential_backoff wrapper
  scan,             \* locals and position of scan_minio_bucket
  result,           \* the ProcessingResult of the running scan
  scan_out,         \* how scan_minio_bucket ended and what it returned
  self_namespaces,  \* generator.namespaces
  alarm,            \* the SIGALRM deadline set by timeout_handler
  handed,           \* history: the batches given to _process_object_batch
  main,             \* locals and position of main()
  output_tree,      \* history: files written below namespaces/ and README.md
  ctor,             \* arguments and position of MinioGitOpsGenerator.__init__
  fs,               \* one file write: the canonical path, its temporary sibling
  fn                \* one call of a function: its arguments and its outcome

vars ==
  <<listing, bucket_prefix, batch_size, retry, scan, result, scan_out,
    self_namespaces, alarm, handed, main, output_tree, ctor, fs,
    fn>>

\* what no step of the retry wrapper, the scan or main() changes
inputVars == <<listing, bucket_prefix, batch_size, ctor, fs, fn>>

\* no function call is under way
NoCall == [pc |-> "none", f |-> "none"]

\* a path that holds no file
Absent == [exists |-> FALSE, data |-> <<>>]

\* no file write is under way
NoWrite ==
  [pc |-> "none", target |-> "none", content |-> <<>>, old |-> Absent,
   canonical |-> Absent, temp |-> Absent]

\* no constructor call is under way
NoCtor ==
  [pc |-> "none", environments |-> <<>>, base_env |-> <<>>,
   default_clusters |-> {}, self_environments |-> <<>>, self_base_env |-> <<>>,
   raised |-> "none"]

(***************************************************************************)
(* Inputs.                                                                 *)
(***************************************************************************)
\* all sequences over S of length at most n
SeqsUpTo(S, n) == UNION {[1..k -> S] : k \in 0..n}

\* a listing yields every object key once: the sequences over S of length
\* at most n without repetition
Listings(S, n) ==
  {s \in SeqsUpTo(S, n) : \A i, j \in 1..Len(s) : i # j => s[i] # s[j]}

\* objects a bucket may hold: manifests of two namespaces and two
\* categories (one of them listed without a size, two of one category in
\* one namespace), a file with a foreign extension, and a key without a
\* namespace segment
BucketObjects ==
  { [object_name |-> <<"a", "/", "d", "e", "p", "l", "o", "y", ".", "y", "a", "m", "l">>, size |-> 1024],
    [object_name |-> <<"a", "/", "d", "e", "p", "l", "o", "y", "m", "e", "n", "t", ".", "y", "a", "m", "l">>, size |-> 512],
    [object_name |-> <<"a", "/", "s", "v", "c", ".", "y", "m", "l">>, size |-> 0],
    [object_name |-> <<"b", "/", "d", "e", "p", "l", "o", "y", ".", "y", "a", "m", "l">>, size |-> 2048],
    [object_name |-> <<"a", "/", "n", "o", "t", "e", "s", ".", "t", "x", "t">>, size |-> 10],
    [object_name |-> <<"o", "r", "p", "h", "a", "n", ".", "y", "a", "m", "l">>, size |-> 10] }

\* the object names under which the handlers of scan_minio_bucket record a
\* fatal error
NameMinioConnection == <<"m", "i", "n", "i", "o", "_", "c", "o", "n", "n", "e", "c", "t", "i", "o", "n">>

NameTimeout == <<"t", "i", "m", "e", "o", "u", "t">>

NameRetryExhausted == <<"r", "e", "t", "r", "y", "_", "e", "x", "h", "a", "u", "s", "t", "e", "d">>

NameNetworkError == <<"n", "e", "t", "w", "o", "r", "k", "_", "e", "r", "r", "o", "r">>

NameBucketScan == <<"b", "u", "c", "k", "e", "t", "_", "s", "c", "a", "n">>

NameValidation == <<"v", "a", "l", "i", "d", "a", "t", "i", "o", "n">>

(***************************************************************************)
(* retry_with_exponential_backoff.  The delay arithmetic (backoff factor,  *)
(* cap, jitter) only decides how long time.sleep blocks and is left out.   *)
(***************************************************************************)
\* the wrapper about to run its for loop around the function `wrapped`
RetryIdle(wrapped, max_attempts) ==
  [wrapped |-> wrapped, max_attempts |-> max_attempts, attempt |-> 0,
   calls |-> 0, sleeps |-> 0, last_exception |-> "none", status |-> "idle",
   value |-> 0, raised |-> "none", cause |-> "none"]

\* exceptions a wrapped operation may raise into the wrapper
OperationErrors ==
  {"S3Error", "OSError", "NetworkError", "MinioConnectionError",
   "TimeoutError", "ValidationError", "SecurityError", "FileSizeError",
   "ContentValidationError"}

\* _resilient_list_objects turns every Exception of its body into NetworkError
\* and _test_minio_connection (lines 344-350) into MinioConnectionError
RaisedBy(wrapped) ==
  IF wrapped = "_resilient_list_objects" THEN {"NetworkError"}
  ELSE IF wrapped = "_test_minio_connection" THEN {"MinioConnectionError"}
  ELSE OperationErrors

\* a type test by exact class instead of isinstance
IsNonRetryableExactClass(e) == e \in {"ValidationError", "SecurityError"}

\* line 180: the errors the wrapper re-raises at once
IsNonRetryable(e) ==
  \/ IsInstance(e, "ValidationError")
  \/ IsInstance(e, "SecurityError")
  \/ IsInstance(e, "FileSizeError")

\* the last attempt taken to be the one after the loop's last
IsLastAttemptOffByOne(r) == r.attempt = r.max_attempts

\* line 183
IsLastAttempt(r) == r.attempt = r.max_attempts - 1

\* lines 176-195: the except clause of the wrapper, entered with exception e
\* after one more call of the function
OnException(r, e) ==
  LET seen == [r EXCEPT !.calls = @ + 1, !.last_exception = e]
  IN IF IsNonRetryable(e)
     THEN [seen EXCEPT !.status = "raised", !.raised = e]
     ELSE IF IsLastAttempt(seen)
          THEN [seen EXCEPT !.status = "raised",
                            !.raised = "RetryExhaustedError", !.cause = e]
          ELSE [seen EXCEPT !.status = "sleeping"]

\* a wrapped function is called and its wrapper starts: range(max_attempts)
\* is empty only for max_attempts = 0.  The RetryExhaustedError of line 195
\* carries the last error in its message, modelled by the field `cause`.
RetryEnter ==
  /\ retry.wrapped # "none"
  /\ retry.status = "idle"
  /\ retry' = IF retry.max_attempts > 0
              THEN [retry EXCEPT !.status = "calling"]
              ELSE [retry EXCEPT !.status = "raised",
                                 !.raised = "RetryExhaustedError"]
  /\ UNCHANGED <<inputVars, scan, result, scan_out, self_namespaces, alarm,
                 handed, main, output_tree>>

\* line 175: the call returns; value identifies the call that returned
OperationReturns ==
  /\ retry.status = "calling"
  /\ retry' = [retry EXCEPT !.calls = @ + 1, !.value = retry.calls + 1,
                            !.status = "returned"]
  /\ UNCHANGED <<inputVars, scan, result, scan_out, self_namespaces, alarm,
                 handed, main, output_tree>>

\* the call raises e
OperationRaises ==
  /\ retry.status = "calling"
  /\ \E e \in RaisedBy(retry.wrapped) : retry' = OnException(retry, e)
  /\ UNCHANGED <<inputVars, scan, result, scan_out, self_namespaces, alarm,
                 handed, main, output_tree>>

\* line 187: time.sleep(delay) returns and the loop goes to the next attempt
SleepReturns ==
  /\ retry.status = "sleeping"
  /\ retry' = [retry EXCEPT !.sleeps = @ + 1, !.attempt = @ + 1,
                            !.status = "calling"]
  /\ UNCHANGED <<inputVars, scan, result, scan_out, self_namespaces, alarm,
                 handed, main, output_tree>>

\* SIGALRM arrives while _resilient_list_objects runs: the TimeoutError is
\* raised inside its try block, caught by `except Exception` (line 362) and
\* re-raised as NetworkError into the wrapper
DeadlineInListCall ==
  /\ alarm = "armed"
  /\ retry.status = "calling"
  /\ retry.wrapped = "_resilient_list_objects"
  /\ alarm' = "fired"
  /\ retry' = OnException(retry, "NetworkError")
  /\ UNCHANGED <<inputVars, scan, result, scan_out, self_namespaces, handed,
                 main, output_tree>>

\* SIGALRM arrives during time.sleep (line 187), which is inside the except
\* clause: the TimeoutError leaves the wrapper
DeadlineInSleep ==
  /\ alarm = "armed"
  /\ retry.status = "sleeping"
  /\ alarm' = "fired"
  /\ retry' = [retry EXCEPT !.status = "raised", !.raised = "TimeoutError"]
  /\ UNCHANGED <<inputVars, scan, result, scan_out, self_namespaces, handed,
                 main, output_tree>>

(***************************************************************************)
(* scan_minio_bucket under timeout_handler, and _process_object_batch.     *)
(***************************************************************************)
\* the locals of scan_minio_bucket at lines 547-557
ScanLocals ==
  [pc |-> "start", next_idx |-> 0, batch |-> <<>>, final |-> FALSE, bpos |-> 1,
   batch_processed |-> 0, processed_count |-> 0, total_objects |-> 0,
   namespace_resources |-> <<>>, exc |-> "none", cause |-> "none"]

NoScanOut == [status |-> "none", namespaces |-> <<>>, raised |-> "none"]

\* every error recorded under the name of the catch-all clause
HandlerNameCatchAll(e) == NameBucketScan

\* the first except clause of lines 579-605 that matches e names the entry
HandlerName(e) ==
  IF IsInstance(e, "S3Error") THEN NameMinioConnection
  ELSE IF IsInstance(e, "MinioConnectionError") THEN NameMinioConnection
  ELSE IF IsInstance(e, "TimeoutError") THEN NameTimeout
  ELSE IF IsInstance(e, "RetryExhaustedError") THEN NameRetryExhausted
  ELSE IF IsInstance(e, "NetworkError") THEN NameNetworkError
  ELSE NameBucketScan

\* an except clause that returns the namespaces collected so far
HandlerReturnPartial(e, nsr) == ToNamespaceConfigs(nsr)

\* what an except clause of lines 579-605 returns as the namespace list
HandlerReturn(e, nsr) == <<>>

\* signal.alarm(0) on the return path of timeout_handler (line 218)
AlarmAfterReturn == IF alarm = "armed" THEN "off" ELSE alarm

\* an exception e (wrapping cause) is raised inside the try statement of
\* lines 550-577 and travels to its except clauses
Raise(e, cause) == scan' = [scan EXCEPT !.pc = "except", !.exc = e, !.cause = cause]

\* lines 579-605: the matching except clause records the failure and returns
ScanExcept ==
  /\ scan.pc = "except"
  /\ result' = add_failure(result, HandlerName(scan.exc), scan.exc, scan.cause)
  /\ scan_out' = [status |-> "returned",
                  namespaces |-> HandlerReturn(scan.exc, scan.namespace_resources),
                  raised |-> "none"]
  /\ scan' = [scan EXCEPT !.pc = "failed"]
  /\ alarm' = AlarmAfterReturn
  /\ UNCHANGED <<inputVars, retry, self_namespaces, handed, main, output_tree>>

\* a batch that is handed on only once it holds more than batch_size objects
BatchIsFullOffByOne(batch, size) == Len(batch) > size

\* line 569
BatchIsFull(batch, size) == Len(batch) >= size

\* timeout_handler arms the alarm, scan_minio_bucket initialises its locals
\* and calls _resilient_list_objects through the retry wrapper
ScanStart ==
  /\ main.pc \in {"scan", "none"}
  /\ scan.pc = "start"
  /\ alarm' = "armed"
  /\ result' = ProcessingResult
  /\ scan' = [ScanLocals EXCEPT !.pc = "list_call"]
  /\ retry' = RetryIdle("_resilient_list_objects", MAX_RETRY_ATTEMPTS)
  /\ UNCHANGED <<inputVars, scan_out, self_namespaces, handed, main,
                 output_tree>>

\* the wrapper returned the lazy object stream; its frame is gone
ListReturned ==
  /\ scan.pc = "list_call"
  /\ retry.status = "returned"
  /\ scan' = [scan EXCEPT !.pc = "iterate"]
  /\ retry' = RetryIdle("none", 0)
  /\ UNCHANGED <<inputVars, result, scan_out, self_namespaces, alarm, handed,
                 main, output_tree>>

\* the wrapper raised
ListRaised ==
  /\ scan.pc = "list_call"
  /\ retry.status = "raised"
  /\ Raise(retry.raised, retry.cause)
  /\ retry' = RetryIdle("none", 0)
  /\ UNCHANGED <<inputVars, result, scan_out, self_namespaces, alarm, handed,
                 main, output_tree>>

\* lines 560-571: the stream yields its next object; a full batch is handed
\* to _process_object_batch
IterYield ==
  /\ scan.pc = "iterate"
  /\ scan.next_idx < Len(listing)
  /\ LET obj == listing[scan.next_idx + 1]
         batch == Append(scan.batch, obj)
         full == BatchIsFull(batch, batch_size)
     IN /\ scan' = [scan EXCEPT !.next_idx = @ + 1,
                                !.total_objects = @ + 1,
                                !.batch = batch,
                                !.pc = IF full THEN "process" ELSE "iterate",
                                !.bpos = 1,
                                !.batch_processed = 0]
        /\ handed' = IF full THEN Append(handed, batch) ELSE handed
  /\ UNCHANGED <<inputVars, retry, result, scan_out, self_namespaces, alarm,
                 main, output_tree>>

\* lines 573-577: the stream is exhausted; a non-empty rest is the final batch
IterExhausted ==
  /\ scan.pc = "iterate"
  /\ scan.next_idx = Len(listing)
  /\ scan' = IF scan.batch # <<>>
             THEN [scan EXCEPT !.pc = "process", !.final = TRUE, !.bpos = 1,
                               !.batch_processed = 0]
             ELSE [scan EXCEPT !.pc = "validate_limits"]
  /\ handed' = IF scan.batch # <<>> THEN Append(handed, scan.batch) ELSE handed
  /\ UNCHANGED <<inputVars, retry, result, scan_out, self_namespaces, alarm,
                 main, output_tree>>

\* exceptions the object stream may raise while it is iterated
StreamErrors ==
  {"S3Error", "MinioConnectionError", "NetworkError", "OSError"}

\* the stream raises during iteration, outside the retry wrapper
IterRaises ==
  /\ scan.pc = "iterate"
  /\ \E e \in StreamErrors : Raise(e, "none")
  /\ UNCHANGED <<inputVars, retry, result, scan_out, self_namespaces, alarm,
                 handed, main, output_tree>>

\* SIGALRM arrives in the for loop of scan_minio_bucket, or in
\* _process_object_batch outside its per-object try block
DeadlineInLoop ==
  /\ alarm = "armed"
  /\ \/ scan.pc = "iterate"
     \/ scan.pc = "process" /\ scan.bpos > Len(scan.batch)
  /\ alarm' = "fired"
  /\ Raise("TimeoutError", "none")
  /\ UNCHANGED <<inputVars, retry, result, scan_out, self_namespaces, handed,
                 main, output_tree>>

\* lines 639-685: one iteration of the loop of _process_object_batch
ProcessObject ==
  /\ scan.pc = "process"
  /\ scan.bpos <= Len(scan.batch)
  /\ LET obj == scan.batch[scan.bpos]
         out == ObjectOutcome(obj, bucket_prefix)
     IN CASE out.kind = "failure" ->
               /\ result' = add_failure(result, obj.object_name, out.error, "none")
               /\ scan' = [scan EXCEPT !.bpos = @ + 1]
          [] out.kind = "warning" ->
               /\ result' = add_warning(result,
                                        [about |-> "invalid_path",
                                         name |-> obj.object_name])
               /\ scan' = [scan EXCEPT !.bpos = @ + 1]
          [] out.kind = "success" ->
               /\ result' =
                    add_success(
                      IF out.namespace \in DictKeys(scan.namespace_resources)
                      THEN result
                      ELSE [result EXCEPT !.namespaces_found =
                                            Append(@, out.namespace)],
                      obj.object_name)
               /\ scan' = [scan EXCEPT
                             !.bpos = @ + 1,
                             !.batch_processed = @ + 1,
                             !.namespace_resources =
                               AddResource(@, out.namespace, out.resource_type,
                                           out.filename)]
  /\ UNCHANGED <<inputVars, retry, scan_out, self_namespaces, alarm, handed,
                 main, output_tree>>

\* SIGALRM arrives inside the per-object try block before the object has an
\* entry: `except Exception` (line 682) records it as this object's failure
\* and the loop continues
DeadlineInObject ==
  /\ alarm = "armed"
  /\ scan.pc = "process"
  /\ scan.bpos <= Len(scan.batch)
  /\ alarm' = "fired"
  /\ result' = add_failure(result, scan.batch[scan.bpos].object_name,
                           "TimeoutError", "none")
  /\ scan' = [scan EXCEPT !.bpos = @ + 1]
  /\ UNCHANGED <<inputVars, retry, scan_out, self_namespaces, handed, main,
                 output_tree>>

\* SIGALRM arrives inside the try block after add_success (line 671) and
\* before batch_processed is incremented (line 680)
DeadlineAfterSuccess ==
  /\ alarm = "armed"
  /\ scan.pc = "process"
  /\ scan.bpos <= Len(scan.batch)
  /\ LET obj == scan.batch[scan.bpos]
         out == ObjectOutcome(obj, bucket_prefix)
     IN /\ out.kind = "success"
        /\ result' =
             add_failure(
               add_success(
                 IF out.namespace \in DictKeys(scan.namespace_resources)
                 THEN result
                 ELSE [result EXCEPT !.namespaces_found =
                                       Append(@, out.namespace)],
                 obj.object_name),
               obj.object_name, "TimeoutError", "none")
        /\ scan' = [scan EXCEPT
                      !.bpos = @ + 1,
                      !.namespace_resources =
                        AddResource(@, out.namespace, out.resource_type,
                                    out.filename)]
  /\ alarm' = "fired"
  /\ UNCHANGED <<inputVars, retry, scan_out, self_namespaces, handed, main,
                 output_tree>>

\* _process_object_batch returns batch_processed (line 687); the caller adds
\* it to processed_count and clears a full batch (lines 570-571, 575)
BatchDone ==
  /\ scan.pc = "process"
  /\ scan.bpos > Len(scan.batch)
  /\ scan' = [scan EXCEPT
                !.processed_count = @ + scan.batch_processed,
                !.batch = IF scan.final THEN @ ELSE <<>>,
                !.pc = IF scan.final THEN "validate_limits" ELSE "iterate"]
  /\ UNCHANGED <<inputVars, retry, result, scan_out, self_namespaces, alarm,
                 handed, main, output_tree>>

\* lines 607-613
ValidateLimits ==
  /\ scan.pc = "validate_limits"
  /\ LET v == _validate_namespace_limits(scan.namespace_resources)
     IN IF v = "ok"
        THEN /\ scan' = [scan EXCEPT !.pc = "convert"]
             /\ UNCHANGED <<result, scan_out, alarm>>
        ELSE /\ result' = add_failure(result, NameValidation, v, "none")
             /\ scan_out' = [status |-> "returned", namespaces |-> <<>>,
                             raised |-> "none"]
             /\ scan' = [scan EXCEPT !.pc = "failed"]
             /\ alarm' = AlarmAfterReturn
  /\ UNCHANGED <<inputVars, retry, self_namespaces, handed, main, output_tree>>

\* lines 615-632: NamespaceConfig objects are appended to self.namespaces,
\* which is returned
Convert ==
  /\ scan.pc = "convert"
  /\ self_namespaces' =
       self_namespaces \o ToNamespaceConfigs(scan.namespace_resources)
  /\ scan_out' = [status |-> "returned", namespaces |-> self_namespaces',
                  raised |-> "none"]
  /\ scan' = [scan EXCEPT !.pc = "done"]
  /\ alarm' = AlarmAfterReturn
  /\ UNCHANGED <<inputVars, retry, result, handed, main, output_tree>>

\* SIGALRM arrives after the first try statement (lines 607-632): nothing
\* there catches TimeoutError, and timeout_handler re-raises it (line 222)
DeadlineAfterLoop ==
  /\ alarm = "armed"
  /\ scan.pc \in {"validate_limits", "convert"}
  /\ alarm' = "fired"
  /\ scan_out' = [status |-> "raised", namespaces |-> <<>>,
                  raised |-> "TimeoutError"]
  /\ scan' = [scan EXCEPT !.pc = "raised"]
  /\ UNCHANGED <<inputVars, retry, result, self_namespaces, handed, main,
                 output_tree>>

(***************************************************************************)
(* download_resources and generate_gitops_structure, as main() drives      *)
(* them.                                                                   *)
(***************************************************************************)
\* Constants.DEFAULT_ENVIRONMENTS, which main() leaves in force
DEFAULT_ENVIRONMENTS ==
  << <<"d", "e", "v">>, <<"t", "e", "s", "t">>,
     <<"p", "r", "e", "p", "r", "o", "d">>, <<"p", "r", "o", "d">> >>

\* Constants.DEFAULT_BASE_ENV
DEFAULT_BASE_ENV == <<"d", "e", "v">>

DEV == <<"d", "e", "v">>

TEST == <<"t", "e", "s", "t">>

PREPROD == <<"p", "r", "e", "p", "r", "o", "d">>

PROD == <<"p", "r", "o", "d">>

\* an environment name outside Constants.DEFAULT_ENVIRONMENTS
QA == <<"q", "a">>

BASE_NAMESPACE_DIR == <<"n", "a", "m", "e", "s", "p", "a", "c", "e", "s">>

ENVIRONMENTS_DIR == <<"e", "n", "v", "i", "r", "o", "n", "m", "e", "n", "t", "s">>

ARGOCD_APPS_DIR == <<"a", "r", "g", "o", "c", "d", "-", "a", "p", "p", "s">>

\* line 930: the prefix of the name a failed mkdir is recorded under
NameCreateDirectory == <<"c", "r", "e", "a", "t", "e", "_", "d", "i", "r", "e", "c", "t", "o", "r", "y", "_">>

\* a / b of pathlib for relative b
PathJoin(a, b) == a \o <<"/">> \o b

\* line 935: f"{prefix}/{namespace}/{filename}".strip('/')
MinioPath(prefix, namespace, filename) ==
  Strip(prefix \o <<"/">> \o namespace \o <<"/">> \o filename, "/")

\* line 922: namespaces/<namespace>/environments/<base_env>
BasePath(namespace, base_env) ==
  PathJoin(PathJoin(PathJoin(BASE_NAMESPACE_DIR, namespace), ENVIRONMENTS_DIR),
           base_env)

\* lines 925 and 936: resource_dir / filename
LocalPath(namespace, base_env, resource_type, filename) ==
  PathJoin(PathJoin(BasePath(namespace, base_env), resource_type), filename)

\* lines 921-934: the (namespace, resource_type) directories in loop order
RECURSIVE DownloadGroupsFrom(_, _, _)
DownloadGroupsFrom(namespaces, i, j) ==
  IF i > Len(namespaces) THEN <<>>
  ELSE IF j > Len(namespaces[i].resources)
       THEN DownloadGroupsFrom(namespaces, i + 1, 1)
       ELSE << [namespace |-> namespaces[i].name,
                resource_type |-> namespaces[i].resources[j].key,
                filenames |-> namespaces[i].resources[j].value] >>
            \o DownloadGroupsFrom(namespaces, i, j + 1)

DownloadGroups(namespaces) == DownloadGroupsFrom(namespaces, 1, 1)

\* lines 938-979 for one file: what fget_object did (fget is "ok" or the
\* exception it raised) and whether _cleanup_k8s_metadata returned True.
\* After a successful cleanup line 966 calls _validate_yaml_content with one
\* argument instead of two, which raises TypeError into `except Exception`.
DownloadOne(r, minio_path, local_path, fget, cleanup_success) ==
  IF fget # "ok" THEN add_failure(r, minio_path, fget, "none")
  ELSE IF ~cleanup_success
       THEN add_success(add_warning(r, [about |-> "cleanup_failed",
                                        name |-> local_path]),
                        local_path)
       ELSE add_failure(r, minio_path, "TypeError", "none")

\* lines 1647-1649: what main() copies from the scan's ledger
MergeScan(overall, scan_result) ==
  [overall EXCEPT !.success_files = @ \o scan_result.success_files,
                  !.failed_files = @ \o scan_result.failed_files,
                  !.warnings = @ \o scan_result.warnings]

\* lines 1664-1666: what main() copies from the download ledger
MergeDownload(overall, download_result) ==
  [overall EXCEPT !.failed_files = @ \o download_result.failed_files,
                  !.warnings = @ \o download_result.warnings]

\* lines 1692-1697
ExitStatusAfterGeneration(overall) == IF has_failures(overall) THEN 2 ELSE 0

\* the locals of main()
MainLocals ==
  [pc |-> "load_config", exit_status |-> -1,
   overall_result |-> ProcessingResult, download_result |-> ProcessingResult,
   groups |-> <<>>, g |-> 1, f |-> 0, gen_idx |-> 1]

Exit(status) == main' = [main EXCEPT !.pc = "exited", !.exit_status = status]

\* lines 1618-1634: load_config and create_backup
LoadConfig ==
  /\ main.pc = "load_config"
  /\ \/ main' = [main EXCEPT !.pc = "construct"]
     \/ Exit(1)
  /\ UNCHANGED <<inputVars, retry, scan, result, scan_out, self_namespaces,
                 alarm, handed, output_tree>>

\* line 1637: the constructor runs outside the try statement, so a
\* ConfigurationError or RetryExhaustedError it raises ends the interpreter
\* with status 1
Construct ==
  /\ main.pc = "construct"
  /\ \/ main' = [main EXCEPT !.pc = "scan"]
     \/ Exit(1)
  /\ UNCHANGED <<inputVars, retry, scan, result, scan_out, self_namespaces,
                 alarm, handed, output_tree>>

\* lines 1646-1663: the scan returned
MainAfterScan ==
  /\ main.pc = "scan"
  /\ scan_out.status = "returned"
  /\ LET overall == MergeScan(main.overall_result, result)
     IN IF scan_out.namespaces = <<>>
        THEN /\ main' = [main EXCEPT !.pc = "exited", !.exit_status = 1,
                                     !.overall_result = overall]
             /\ UNCHANGED self_namespaces
        ELSE /\ main' = [main EXCEPT
                           !.pc = "download",
                           !.overall_result = overall,
                           !.download_result = ProcessingResult,
                           !.groups = DownloadGroups(scan_out.namespaces),
                           !.g = 1, !.f = 0]
             /\ self_namespaces' = scan_out.namespaces
  /\ UNCHANGED <<inputVars, retry, scan, result, scan_out, alarm, handed,
                 output_tree>>

\* an exception left scan_minio_bucket: `except Exception` (line 1702)
MainScanRaised ==
  /\ main.pc = "scan"
  /\ scan_out.status = "raised"
  /\ Exit(1)
  /\ UNCHANGED <<inputVars, retry, scan, result, scan_out, self_namespaces,
                 alarm, handed, output_tree>>

\* lines 927-932: resource_dir.mkdir; a failure skips the directory's files
DownloadMkdir ==
  /\ main.pc = "download"
  /\ main.g <= Len(main.groups)
  /\ main.f = 0
  /\ \/ main' = [main EXCEPT !.f = 1]
     \/ main' = [main EXCEPT
                   !.g = @ + 1,
                   !.download_result =
                     add_failure(@,
                                 NameCreateDirectory
                                   \o PathJoin(BasePath(main.groups[main.g].namespace,
                                                        DEFAULT_BASE_ENV),
                                               main.groups[main.g].resource_type),
                                 "OSError", "none")]
  /\ UNCHANGED <<inputVars, retry, scan, result, scan_out, self_namespaces,
                 alarm, handed, output_tree>>

\* lines 934-979: one file of the current directory
DownloadFile ==
  /\ main.pc = "download"
  /\ main.g <= Len(main.groups)
  /\ main.f >= 1
  /\ main.f <= Len(main.groups[main.g].filenames)
  /\ LET group == main.groups[main.g]
         filename == group.filenames[main.f]
         minio_path == MinioPath(bucket_prefix, group.namespace, filename)
         local_path == LocalPath(group.namespace, DEFAULT_BASE_ENV,
                                 group.resource_type, filename)
     IN \E fget \in {"ok", "S3Error", "OSError"}, cleanup_success \in BOOLEAN :
          /\ fget = "ok" \/ cleanup_success
          /\ main' = [main EXCEPT
                        !.f = @ + 1,
                        !.download_result =
                          DownloadOne(@, minio_path, local_path, fget,
                                      cleanup_success)]
          /\ output_tree' = IF fget = "ok" THEN output_tree \cup {local_path}
                            ELSE output_tree
  /\ UNCHANGED <<inputVars, retry, scan, result, scan_out, self_namespaces,
                 alarm, handed>>

\* the inner loop over filenames ends
DownloadNextDir ==
  /\ main.pc = "download"
  /\ main.g <= Len(main.groups)
  /\ main.f > Len(main.groups[main.g].filenames)
  /\ main' = [main EXCEPT !.g = @ + 1, !.f = 0]
  /\ UNCHANGED <<inputVars, retry, scan, result, scan_out, self_namespaces,
                 alarm, handed, output_tree>>

\* lines 1663-1666: download_resources returned
MainAfterDownload ==
  /\ main.pc = "download"
  /\ main.g > Len(main.groups)
  /\ main' = [main EXCEPT
                !.pc = "generate",
                !.overall_result = MergeDownload(@, main.download_result),
                !.gen_idx = 1]
  /\ UNCHANGED <<inputVars, retry, scan, result, scan_out, self_namespaces,
                 alarm, handed, output_tree>>

\* the files _generate_namespace_structure writes for one namespace: one
\* Application and one kustomization.yaml per environment, and a README
GeneratedFiles(namespace) ==
  LET ns_path == PathJoin(BASE_NAMESPACE_DIR, namespace)
      env(i) == DEFAULT_ENVIRONMENTS[i]
  IN {PathJoin(PathJoin(ns_path, ARGOCD_APPS_DIR),
               env(i) \o <<".", "y", "a", "m", "l">>) :
        i \in 1..Len(DEFAULT_ENVIRONMENTS)}
     \cup {PathJoin(PathJoin(PathJoin(ns_path, ENVIRONMENTS_DIR), env(i)),
                    <<"k", "u", "s", "t", "o", "m", "i", "z", "a", "t", "i", "o", "n", ".", "y", "a", "m", "l">>) :
             i \in 1..Len(DEFAULT_ENVIRONMENTS)}
     \cup {PathJoin(ns_path, <<"R", "E", "A", "D", "M", "E", ".", "m", "d">>)}

\* lines 1067-1068: _generate_namespace_structure for the next namespace
GenerateNamespace ==
  /\ main.pc = "generate"
  /\ main.gen_idx <= Len(self_namespaces)
  /\ output_tree' = output_tree \cup GeneratedFiles(self_namespaces[main.gen_idx].name)
  /\ main' = [main EXCEPT !.gen_idx = @ + 1]
  /\ UNCHANGED <<inputVars, retry, scan, result, scan_out, self_namespaces,
                 alarm, handed>>

\* line 1071: the root README, after which main() prints its report
GenerateRootReadme ==
  /\ main.pc = "generate"
  /\ main.gen_idx > Len(self_namespaces)
  /\ output_tree' = output_tree \cup {<<"R", "E", "A", "D", "M", "E", ".", "m", "d">>}
  /\ main' = [main EXCEPT !.pc = "report"]
  /\ UNCHANGED <<inputVars, retry, scan, result, scan_out, self_namespaces,
                 alarm, handed>>

\* a write of the generation stage raises (OSError from _safe_write_file or
\* open): nothing in generate_gitops_structure catches it, `except
\* Exception` of main() does (line 1702)
GenerateRaises ==
  /\ main.pc = "generate"
  /\ Exit(1)
  /\ UNCHANGED <<inputVars, retry, scan, result, scan_out, self_namespaces,
                 alarm, handed, output_tree>>

\* lines 1691-1697
MainExit ==
  /\ main.pc = "report"
  /\ Exit(ExitStatusAfterGeneration(main.overall_result))
  /\ UNCHANGED <<inputVars, retry, scan, result, scan_out, self_namespaces,
                 alarm, handed, output_tree>>

\* lines 1699-1701: KeyboardInterrupt anywhere inside the try statement
Interrupt ==
  /\ main.pc \in {"scan", "download", "generate", "report"}
  /\ Exit(130)
  /\ UNCHANGED <<inputVars, retry, scan, result, scan_out, self_namespaces,
                 alarm, handed, output_tree>>

(***************************************************************************)
(* MinioGitOpsGenerator.__init__ and _validate_environment_configuration.  *)
(* An absent argument (None) and an empty one are both <<>>: `or` at lines *)
(* 318-319 treats them alike.                                              *)
(***************************************************************************)
\* environment names a configuration may use
EnvNames == {DEV, TEST, QA}

\* lines 329-337: the check of the environments against the default mapping
_validate_environment_configuration(environments, base_env, default_clusters) ==
  IF \E i \in 1..Len(environments) : environments[i] \notin default_clusters
  THEN "ConfigurationError"
  ELSE IF \A i \in 1..Len(environments) : environments[i] # base_env
       THEN "ConfigurationError"
       ELSE "ok"

\* lines 286-310: the client is built and _test_minio_connection is called
\* under its retry wrapper (max_attempts=2, line 341)
CtorStart ==
  /\ ctor.pc = "start"
  /\ ctor' = [ctor EXCEPT !.pc = "test_connection"]
  /\ retry' = RetryIdle("_test_minio_connection", 2)
  /\ UNCHANGED <<listing, bucket_prefix, batch_size, scan, result, scan_out,
                 self_namespaces, alarm, handed, main, output_tree, fs, fn>>

\* lines 311-319: the connection test returned
CtorConnected ==
  /\ ctor.pc = "test_connection"
  /\ retry.status = "returned"
  /\ ctor' = [ctor EXCEPT
                !.pc = "validate",
                !.self_environments = IF ctor.environments # <<>>
                                      THEN ctor.environments
                                      ELSE DEFAULT_ENVIRONMENTS,
                !.self_base_env = IF ctor.base_env # <<>>
                                  THEN ctor.base_env
                                  ELSE DEFAULT_BASE_ENV]
  /\ UNCHANGED <<listing, bucket_prefix, batch_size, retry, scan, result,
                 scan_out, self_namespaces, alarm, handed, main, output_tree,
                 fs, fn>>

\* line 310: the wrapper of the connection test raised
CtorConnectionFailed ==
  /\ ctor.pc = "test_connection"
  /\ retry.status = "raised"
  /\ ctor' = [ctor EXCEPT !.pc = "raised", !.raised = retry.raised]
  /\ UNCHANGED <<listing, bucket_prefix, batch_size, retry, scan, result,
                 scan_out, self_namespaces, alarm, handed, main, output_tree,
                 fs, fn>>

\* line 322
CtorValidate ==
  /\ ctor.pc = "validate"
  /\ LET v == _validate_environment_configuration(ctor.self_environments,
                                                  ctor.self_base_env,
                                                  ctor.default_clusters)
     IN ctor' = IF v = "ok" THEN [ctor EXCEPT !.pc = "constructed"]
                ELSE [ctor EXCEPT !.pc = "raised", !.raised = v]
  /\ UNCHANGED <<listing, bucket_prefix, batch_size, retry, scan, result,
                 scan_out, self_namespaces, alarm, handed, main, output_tree,
                 fs, fn>>

(***************************************************************************)
(* Writing one output file.  File content is a sequence of chunks; a crash *)
(* of the process may come between any two steps and leaves the files as   *)
(* they are.                                                               *)
(***************************************************************************)
\* the files the pipeline writes, by the statement that writes them
SafeWriteTargets ==
  {"base_kustomization", "overlay_kustomization", "namespace_readme",
   "root_readme", "builtin_cleaned_manifest"}

\* argocd-apps/<env>.yaml (line 1156) and the manifest rewritten by
\* KubernetesYAMLCleaner.clean_yaml_file are opened at their canonical path
DirectWriteTargets == {"application", "advanced_cleaned_manifest"}

\* the variables a file write leaves alone
notFs ==
  <<listing, bucket_prefix, batch_size, retry, scan, result, scan_out,
    self_namespaces, alarm, handed, main, output_tree, ctor, fn>>

\* lines 395 and 1156: open(path, 'w') creates or truncates the file
OpenForWriting ==
  /\ fs.pc = "start"
  /\ fs' = IF fs.target \in SafeWriteTargets
           THEN [fs EXCEPT !.pc = "writing", !.temp = [exists |-> TRUE, data |-> <<>>]]
           ELSE [fs EXCEPT !.pc = "writing",
                           !.canonical = [exists |-> TRUE, data |-> <<>>]]
  /\ UNCHANGED notFs

\* the file open for writing: the temporary sibling or the canonical path
OpenFile == IF fs.target \in SafeWriteTargets THEN fs.temp ELSE fs.canonical

\* lines 396 and 1157: the next chunk of the content reaches the open file
WriteChunk ==
  /\ fs.pc = "writing"
  /\ Len(OpenFile.data) < Len(fs.content)
  /\ LET data == Append(OpenFile.data, fs.content[Len(OpenFile.data) + 1])
     IN fs' = IF fs.target \in SafeWriteTargets
              THEN [fs EXCEPT !.temp.data = data]
              ELSE [fs EXCEPT !.canonical.data = data]
  /\ UNCHANGED notFs

\* lines 397-398 and the end of the with statement: the file is closed
CloseFile ==
  /\ fs.pc = "writing"
  /\ Len(OpenFile.data) = Len(fs.content)
  /\ fs' = [fs EXCEPT !.pc = IF fs.target \in SafeWriteTargets
                             THEN "rename" ELSE "written"]
  /\ UNCHANGED notFs

\* line 401: temp_path.replace(file_path)
RenameIntoPlace ==
  /\ fs.pc = "rename"
  /\ fs' = [fs EXCEPT !.pc = "written", !.canonical = fs.temp, !.temp = Absent]
  /\ UNCHANGED notFs

\* lines 404-408: a write to the temporary file raises; it is unlinked
SafeWriteFails ==
  /\ fs.pc \in {"writing", "rename"}
  /\ fs.target \in SafeWriteTargets
  /\ fs' = [fs EXCEPT !.pc = "raised", !.temp = Absent]
  /\ UNCHANGED notFs

\* the process dies
Crash ==
  /\ fs.pc \in {"start", "writing", "rename"}
  /\ fs' = [fs EXCEPT !.pc = "crashed"]
  /\ UNCHANGED notFs

(***************************************************************************)
(* Calls of single functions.                                              *)
(***************************************************************************)
\* the variables a function call leaves alone
notFn ==
  <<listing, bucket_prefix, batch_size, retry, scan, result, scan_out,
    self_namespaces, alarm, handed, main, output_tree, ctor, fs>>

RECURSIVE Join(_, _)
\* sep.join(q)
Join(q, sep) ==
  IF q = <<>> THEN <<>>
  ELSE IF Len(q) = 1 THEN q[1]
  ELSE q[1] \o sep \o Join(Tail(q), sep)

\* a string of 64 characters, one more than MAX_NAMESPACE_LENGTH
LongName == [i \in 1..64 |-> "a"]

\* sample segments of object keys
NS1 == <<"n", "s", "1">>

DEPLOYMENT_YAML == <<"d", "e", "p", "l", "o", "y", "m", "e", "n", "t", ".", "y", "a", "m", "l">>

BAD_UPPER == <<"B", "a", "d", "_", "N", "S">>

BAD_LEADING == <<"-", "x">>

BAD_TRAILING == <<"x", "-">>

NS_NEWLINE == <<"n", "s", "\n">>

BACKUP_PREFIX == <<"b", "a", "c", "k", "u", "p", "/">>

\* segments object keys are built from: valid and invalid namespace names,
\* a file name, and the empty segment of a doubled or trailing separator
KeySegments ==
  { <<>>, NS1, DEPLOYMENT_YAML, BAD_UPPER, BAD_LEADING, BAD_TRAILING, NS_NEWLINE, LongName }

\* the bucket prefixes explored
KeyPrefixes == { <<>>, BACKUP_PREFIX }

\* _safe_parse_path(object_path, prefix) is called: `raised` is what reaches
\* the caller, `inner` what was raised inside the try block of lines 760-798
ClassifyCall ==
  /\ fn.pc = "ready"
  /\ fn.f = "_safe_parse_path"
  /\ fn' = [fn EXCEPT !.pc = "done",
                      !.out = _safe_parse_path(fn.object_path, fn.prefix),
                      !.inner = ParsePathRaised(fn.object_path, fn.prefix),
                      !.raised = "none"]
  /\ UNCHANGED notFn

NOTES_TXT == <<"n", "o", "t", "e", "s", ".", "t", "x", "t">>

\* the object sizes explored, around the limit of MAX_FILE_SIZE_MB mebibytes
ObjectSizes ==
  {0, 1024, MAX_FILE_SIZE_MB * 1024 * 1024, MAX_FILE_SIZE_MB * 1024 * 1024 + 1}

\* segments of the keys given to the validation gate
GateSegments == { NS1, DEPLOYMENT_YAML, NOTES_TXT, BAD_UPPER, <<>> }

\* lines 641-685: the try block of _process_object_batch runs for one object
GateCall ==
  /\ fn.pc = "ready"
  /\ fn.f = "_process_object_batch"
  /\ fn' = [fn EXCEPT !.pc = "done", !.out = ObjectOutcome(fn.obj, fn.prefix)]
  /\ UNCHANGED notFn

MY_SERVICE_YAML == <<"m", "y", "-", "s", "e", "r", "v", "i", "c", "e", ".", "y", "a", "m", "l">>

X_YAML == <<"x", ".", "y", "a", "m", "l">>

\* file names given to the categoriser
CategorizeFilenames == { DEPLOYMENT_YAML, MY_SERVICE_YAML, X_YAML }

\* a document that is null (an empty document of the stream)
NullDoc == [null |-> TRUE, has_kind |-> FALSE, kind |-> <<>>, deep |-> FALSE]

\* a mapping with the given kind
DocOfKind(kind, deep) == [null |-> FALSE, has_kind |-> TRUE, kind |-> kind, deep |-> deep]

\* documents a content may parse to
SampleDocs ==
  { NullDoc,
    [null |-> FALSE, has_kind |-> FALSE, kind |-> <<>>, deep |-> FALSE],
    DocOfKind(<<"S", "e", "r", "v", "i", "c", "e">>, FALSE),
    DocOfKind(<<"D", "e", "p", "l", "o", "y", "m", "e", "n", "t">>, FALSE),
    DocOfKind(<<"C", "u", "s", "t", "o", "m", "T", "h", "i", "n", "g">>, FALSE),
    DocOfKind(<<"S", "e", "r", "v", "i", "c", "e">>, TRUE) }

\* pieces of text a content may hold
SampleTexts == { <<"n", "a", "m", "e", ":", " ", "w", "e", "b">>, <<"v", "a", "l", "u", "e", ":", " ", "{", "{", " ", ".", "V", "a", "l", "u", "e", "s", ".", "t", "a", "g", " ", "}", "}">>, <<"c", "m", "d", ":", " ", "E", "V", "A", "L", "(", "x", ")">> }

\* no content given, or the empty string
AbsentContent ==
  [absent |-> TRUE, blank |-> TRUE, text |-> <<>>, malformed |-> FALSE, docs |-> <<>>]

\* the contents explored: absent, whitespace only, not parseable, or a
\* stream of documents
SampleContents ==
  { AbsentContent,
    [AbsentContent EXCEPT !.absent = FALSE] }
  \cup { [absent |-> FALSE, blank |-> FALSE, text |-> text, malformed |-> TRUE,
          docs |-> <<>>] : text \in SampleTexts }
  \cup { [absent |-> FALSE, blank |-> FALSE, text |-> text, malformed |-> FALSE,
          docs |-> docs] :
            text \in SampleTexts, docs \in SeqsUpTo(SampleDocs, MaxDocs) \ {<<>>} }

\* _categorize_resource(filename, file_content) is called
CategorizeCall ==
  /\ fn.pc = "ready"
  /\ fn.f = "_categorize_resource"
  /\ fn' = [fn EXCEPT !.pc = "done",
                      !.out = CategorizeWithContent(fn.filename, fn.content)]
  /\ UNCHANGED notFn

\* the empty mapping
EmptyDict == [k \in {} |-> ""]

\* the mappings that hold some of the fields, each with a scalar value
FieldSubsets(fields) == { [k \in present |-> "x"] : present \in SUBSET fields }

\* a key that is absent or has one of the values
OptionalKey(key, values) == { EmptyDict } \cup { key :> v : v \in values }

\* kinds of the documents given to the sanitizer
SampleKinds == { "Service", "PersistentVolumeClaim", "Deployment", "ConfigMap" }

\* a document without apiVersion and kind, or a resource of a sample kind
SampleHeads ==
  { EmptyDict } \cup { ("apiVersion" :> "v1") @@ ("kind" :> kind) : kind \in SampleKinds }

SampleAnnotations ==
  { EmptyDict,
    ("deployment.kubernetes.io/revision" :> "3"),
    ("deployment.kubernetes.io/revision" :> "3") @@ ("owner" :> "team-a") }

SampleLabels ==
  { ("pod-template-hash" :> "5d4f8"),
    ("pod-template-hash" :> "5d4f8") @@ ("app" :> "web") }

\* metadata mappings: a name, some cluster-assigned fields, annotations, labels
SampleMetadata ==
  { ("name" :> "web") @@ assigned @@ annotations @@ labels :
      assigned \in FieldSubsets({"uid", "deletionTimestamp"}),
      annotations \in OptionalKey("annotations", SampleAnnotations),
      labels \in OptionalKey("labels", SampleLabels) }

\* pod templates: without metadata, or with cluster-assigned metadata
SampleTemplates ==
  { ("spec" :> ("restartPolicy" :> "Always")),
    ("metadata" :> (("uid" :> "x")
                    @@ ("labels" :> (("pod-template-hash" :> "5d4f8") @@ ("app" :> "web"))))),
    ("metadata" :> ("annotations" :> ("deployment.kubernetes.io/revision" :> "3"))) }

\* spec mappings with the fields the kind-specific rules look at
SampleSpecs ==
  { fields @@ type :
      fields \in FieldSubsets({"clusterIP", "healthCheckNodePort"}),
      type \in OptionalKey("type", {"LoadBalancer", "ClusterIP"}) }
  \cup { fields @@ mode :
      fields \in FieldSubsets({"volumeName"}),
      mode \in OptionalKey("volumeMode", {"Filesystem", "Block"}) }
  \cup { fields @@ template :
      fields \in FieldSubsets({"revisionHistoryLimit"}),
      template \in OptionalKey("template", SampleTemplates) }

\* the documents given to the sanitizer
SampleManifests ==
  { head @@ status @@ metadata @@ spec :
      head \in SampleHeads,
      status \in OptionalKey("status", { ("phase" :> "Active") }),
      metadata \in OptionalKey("metadata", SampleMetadata),
      spec \in OptionalKey("spec", SampleSpecs) }

\* preserve_fields of the cleaner: none (as the generator constructs it), or uid
SamplePreserveFields == { {}, {"uid"} }

\* one pass of _cleanup_k8s_metadata over the document: the first pass
\* cleans the document read, the second cleans what the first wrote
CleanCall ==
  /\ fn.f = "_cleanup_k8s_metadata"
  /\ \/ /\ fn.pc = "ready"
        /\ fn' = [fn EXCEPT !.pc = "cleaned",
                            !.once = CleanupDocument(fn.doc, fn.advanced, fn.preserve_fields)]
     \/ /\ fn.pc = "cleaned"
        /\ fn' = [fn EXCEPT !.pc = "done",
                            !.twice = CleanupDocument(fn.once, fn.advanced, fn.preserve_fields)]
  /\ UNCHANGED notFn

(***************************************************************************)
(* The overlay planner: _generate_environment_overlays and                  *)
(* _create_overlay_config.                                                  *)
(***************************************************************************)
DEFAULT_REPLICAS_TEST == 1

DEFAULT_REPLICAS_PREPROD == 2

DEFAULT_REPLICAS_PROD == 3

\* replica_mapping of _create_overlay_config (lines 1300-1304)
replica_mapping ==
  <<DEFAULT_REPLICAS_TEST, DEFAULT_REPLICAS_PREPROD, DEFAULT_REPLICAS_PROD>>

\* list.index(x): the 0-based position of the first occurrence
ListIndex(list, x) ==
  (CHOOSE i \in 1..Len(list) : list[i] = x /\ \A j \in 1..(i - 1) : list[j] # x) - 1

\* list[i] of Python for i >= -len(list): a negative index counts from the end
ListItem(list, i) == IF i < 0 THEN list[Len(list) + i + 1] ELSE list[i + 1]

\* min(a, b)
Min(a, b) == IF a < b THEN a ELSE b

\* overlay_envs of _generate_environment_overlays (line 1291)
OverlayEnvs(environments, base_env) == SelectSeq(environments, LAMBDA env : env # base_env)

\* _create_overlay_config (lines 1297-1313): the namespace, prefix and
\* replica count of one overlay
_create_overlay_config(name, env, environments) ==
  LET env_index == ListIndex(environments, env) - 1
      replicas == ListItem(replica_mapping, Min(env_index, Len(replica_mapping) - 1))
  IN [ namespace |-> name \o <<"-">> \o env,
       namePrefix |-> env \o <<"-">>,
       replicas |-> replicas ]

\* environment names a generator may be constructed with
OverlayEnvNames == { DEV, TEST, PREPROD, PROD, QA }

\* _generate_environment_overlays starts: overlay_envs is computed
OverlayStart ==
  /\ fn.pc = "ready"
  /\ fn.f = "_generate_environment_overlays"
  /\ fn' = [fn EXCEPT !.pc = "loop",
                      !.overlay_envs = OverlayEnvs(fn.environments, fn.base_env)]
  /\ UNCHANGED notFn

\* one iteration of the loop of lines 1293-1295
OverlayStep ==
  /\ fn.pc = "loop"
  /\ fn.f = "_generate_environment_overlays"
  /\ Len(fn.configs) < Len(fn.overlay_envs)
  /\ LET env == fn.overlay_envs[Len(fn.configs) + 1]
     IN fn' = [fn EXCEPT !.configs =
                 Append(@, _create_overlay_config(fn.name, env, fn.environments))]
  /\ UNCHANGED notFn

\* the loop is over
OverlayReturn ==
  /\ fn.pc = "loop"
  /\ fn.f = "_generate_environment_overlays"
  /\ Len(fn.configs) = Len(fn.overlay_envs)
  /\ fn' = [fn EXCEPT !.pc = "done"]
  /\ UNCHANGED notFn

(***************************************************************************)
(* Storage sizes of the overlays: _detect_pvc_storage_requirements.         *)
(***************************************************************************)
STORAGE_SCALE_PREPROD == 2

STORAGE_SCALE_PROD == 5

\* int(base_num * Constants.STORAGE_SCALE_TEST) with the factor 0.5, for a
\* non-negative base_num
ScaleTest(base_num) == base_num \div 2

DEFAULT_STORAGE_TEST == <<"1", "G", "i">>

DEFAULT_STORAGE_PREPROD == <<"1", "0", "G", "i">>

DEFAULT_STORAGE_PROD == <<"5", "0", "G", "i">>

DigitChars == <<"0", "1", "2", "3", "4", "5", "6", "7", "8", "9">>

\* \d of the regular expressions
IsDigit(c) == \E i \in 1..Len(DigitChars) : DigitChars[i] = c

\* \w of the regular expressions, for the characters of the model
IsWordChar(c) == LowerChar(c) \in LowerAlnum \/ c = "_"

DigitValue(c) == (CHOOSE i \in 1..Len(DigitChars) : DigitChars[i] = c) - 1

RECURSIVE IntOf(_)
\* int(s) for a string of digits
IntOf(s) ==
  IF s = <<>> THEN 0
  ELSE 10 * IntOf(SubSeq(s, 1, Len(s) - 1)) + DigitValue(s[Len(s)])

RECURSIVE StrOf(_)
\* str(n) for a non-negative integer
StrOf(n) ==
  IF n < 10 THEN <<DigitChars[n + 1]>>
  ELSE StrOf(n \div 10) \o <<DigitChars[(n % 10) + 1]>>

Max(a, b) == IF a > b THEN a ELSE b

\* the length of the longest prefix of s made of characters that satisfy Test
PrefixLen(s, Test(_)) ==
  CHOOSE n \in 0..Len(s) :
    /\ \A i \in 1..n : Test(s[i])
    /\ n < Len(s) => ~Test(s[n + 1])

\* re.match(r'(\d+)(\w+)', s): the two groups, or no match.  \d+ takes the
\* leading digits; \w+ needs one character more, which \d+ gives back when
\* no word character follows the digits.
SizeMatch(s) ==
  LET d == PrefixLen(s, IsDigit)
      w == PrefixLen(s, IsWordChar)
  IN IF d = 0 THEN [matched |-> FALSE]
     ELSE IF w > d
          THEN [matched |-> TRUE, num |-> SubSeq(s, 1, d), unit |-> SubSeq(s, d + 1, w)]
          ELSE IF d >= 2
               THEN [matched |-> TRUE, num |-> SubSeq(s, 1, d - 1), unit |-> SubSeq(s, d, d)]
               ELSE [matched |-> FALSE]

\* _safe_get_storage_size (lines 1233-1253) of a claim document, and the
\* fallback of lines 1196-1203 for a file that cannot be read or parsed
DetectedSize(file) ==
  IF file.shape = "ok" THEN file.storage ELSE DEFAULT_STORAGE_TEST

\* lines 1206-1225: the three sizes derived from one base size
ScaledSizes(base_size) ==
  LET size_match == SizeMatch(base_size)
  IN IF size_match.matched
     THEN LET base_num == IntOf(size_match.num)
              unit == size_match.unit
          IN [ test |-> StrOf(Max(1, ScaleTest(base_num))) \o unit,
               preprod |-> StrOf(base_num * STORAGE_SCALE_PREPROD) \o unit,
               prod |-> StrOf(base_num * STORAGE_SCALE_PROD) \o unit ]
     ELSE [ test |-> DEFAULT_STORAGE_TEST,
            preprod |-> DEFAULT_STORAGE_PREPROD,
            prod |-> DEFAULT_STORAGE_PROD ]

\* unit suffixes of the requested sizes
SampleUnits == { <<>>, <<"G", "i">>, <<"M">> }

\* a claim file: its name, the magnitude and unit of the storage it requests,
\* and whether the file parses to a claim with a storage request
PvcFile(stem, m, u, shape) ==
  [ stem |-> stem, m |-> m, u |-> u, storage |-> StrOf(m) \o u, shape |-> shape ]

SampleMagnitudes == { 0, 1, 3, 10, MaxMagnitude }

\* the claim files of a namespace: one per stem
PvcFileSets ==
  { files \in SeqsUpTo({ PvcFile(<<"p", "v", "c">>, m, u, shape) :
                           m \in SampleMagnitudes, u \in SampleUnits,
                           shape \in {"ok", "no_storage", "malformed"} }, MaxPvcs) :
      /\ files # <<>>
      /\ \A i \in 1..Len(files) : files[i].shape # "ok" => files[i].m = 0 /\ files[i].u = <<>> }

\* the files are read: detected_pvcs of lines 1186-1203, the i-th file named
\* pvc followed by i
PvcDetect ==
  /\ fn.pc = "ready"
  /\ fn.f = "_detect_pvc_storage_requirements"
  /\ fn' = [fn EXCEPT !.pc = "scale",
                      !.detected_pvcs =
                         [i \in 1..Len(fn.files) |->
                            [pvc_name |-> fn.files[i].stem \o StrOf(i),
                             base_size |-> DetectedSize(fn.files[i])]]]
  /\ UNCHANGED notFn

\* one iteration of the loop of lines 1206-1225
PvcScale ==
  /\ fn.pc = "scale"
  /\ fn.f = "_detect_pvc_storage_requirements"
  /\ fn.i <= Len(fn.detected_pvcs)
  /\ LET pvc == fn.detected_pvcs[fn.i]
         sizes == ScaledSizes(pvc.base_size)
     IN fn' = [fn EXCEPT !.i = @ + 1,
                         !.storage_configs =
                            [ test |-> Put(@.test, pvc.pvc_name, sizes.test),
                              preprod |-> Put(@.preprod, pvc.pvc_name, sizes.preprod),
                              prod |-> Put(@.prod, pvc.pvc_name, sizes.prod) ]]
  /\ UNCHANGED notFn

\* line 1227: storage_configs is returned
PvcReturn ==
  /\ fn.pc = "scale"
  /\ fn.f = "_detect_pvc_storage_requirements"
  /\ fn.i > Len(fn.detected_pvcs)
  /\ fn' = [fn EXCEPT !.pc = "done"]
  /\ UNCHANGED notFn

(***************************************************************************)
(* From the scanned namespace to its descriptors: the conversion at the end *)
(* of scan_minio_bucket, _generate_argocd_apps and _generate_kustomizations.*)
(***************************************************************************)
\* the fields of the dataclass ClusterMapping (lines 229-234)
ClusterMappingFields == { DEV, TEST, PREPROD, PROD }

\* the endpoint a cluster mapping gives for an environment
Endpoint(env) == <<"h", "t", "t", "p", "s", ":", "/", "/">> \o env

\* lines 618-623: ClusterMapping(...) from cluster_mappings['default']; the
\* default of each .get is evaluated whether or not it is used
ConvertClusterMapping(default_clusters) ==
  IF ClusterMappingFields \subseteq DOMAIN default_clusters
  THEN [raised |-> "none",
        value |-> [field \in ClusterMappingFields |-> default_clusters[field]]]
  ELSE [raised |-> "KeyError", value |-> <<>>]

\* lines 1106-1112: sync_policy of an environment
SyncPolicyOf(environments, env) ==
  LET is_automated == ListIndex(environments, env) < 2
  IN "automated" :> [prune |-> is_automated, selfHeal |-> is_automated]

\* lines 1120-1152: app_manifest, and the file it is written to
AppManifest(name, env, cluster, sync_policy) ==
  [ name |-> name \o <<"-">> \o env,
    path |-> <<"n", "a", "m", "e", "s", "p", "a", "c", "e", "s", "/">> \o name \o <<"/", "e", "n", "v", "i", "r", "o", "n", "m", "e", "n", "t", "s", "/">> \o env,
    server |-> cluster,
    namespace |-> name \o <<"-">> \o env,
    syncPolicy |-> sync_policy @@ ("syncOptions" :> <<"CreateNamespace=true">>),
    file |-> env \o <<".", "y", "a", "m", "l">> ]

\* a scanned namespace is converted (lines 616-629)
SynthConvert ==
  /\ fn.pc = "ready"
  /\ fn.f = "synthesis"
  /\ LET c == ConvertClusterMapping(fn.default_clusters)
     IN fn' = IF c.raised = "none"
              THEN [fn EXCEPT !.pc = "collect", !.cluster_mapping = c.value]
              ELSE [fn EXCEPT !.pc = "done", !.raised = c.raised]
  /\ UNCHANGED notFn

\* the first loop of _generate_argocd_apps (lines 1100-1118): getattr on the
\* cluster mapping for every environment
SynthCollect ==
  /\ fn.pc = "collect"
  /\ fn.f = "synthesis"
  /\ fn' = IF \E i \in 1..Len(fn.environments) :
                fn.environments[i] \notin ClusterMappingFields
           THEN [fn EXCEPT !.pc = "done", !.raised = "AttributeError"]
           ELSE [fn EXCEPT !.pc = "write_apps"]
  /\ UNCHANGED notFn

\* one iteration of the second loop (lines 1120-1157), or its end
SynthWriteApp ==
  /\ fn.pc = "write_apps"
  /\ fn.f = "synthesis"
  /\ IF Len(fn.apps) < Len(fn.environments)
     THEN LET env == fn.environments[Len(fn.apps) + 1]
          IN fn' = [fn EXCEPT !.apps =
                      Append(@, AppManifest(fn.name, env, fn.cluster_mapping[env],
                                            SyncPolicyOf(fn.environments, env)))]
     ELSE fn' = [fn EXCEPT !.pc = "base"]
  /\ UNCHANGED notFn

\* _generate_base_kustomization (lines 1264-1283)
SynthBase ==
  /\ fn.pc = "base"
  /\ fn.f = "synthesis"
  /\ fn' = [fn EXCEPT !.pc = "overlays",
                      !.base_kustomization =
                         <<[ namespace |-> fn.name \o <<"-">> \o fn.base_env,
                             namePrefix |-> fn.base_env \o <<"-">> ]>>]
  /\ UNCHANGED notFn

\* _generate_environment_overlays: one overlay, or the end of the loop
SynthOverlay ==
  /\ fn.pc = "overlays"
  /\ fn.f = "synthesis"
  /\ LET overlay_envs == OverlayEnvs(fn.environments, fn.base_env)
     IN IF Len(fn.overlays) < Len(overlay_envs)
        THEN fn' = [fn EXCEPT !.overlays =
                      Append(@, _create_overlay_config(fn.name,
                                                       overlay_envs[Len(fn.overlays) + 1],
                                                       fn.environments))]
        ELSE fn' = [fn EXCEPT !.pc = "done"]
  /\ UNCHANGED notFn

\* a namespace name of 60 characters
NAME_60 == [i \in 1..60 |-> "a"]

\* namespace names the scanner accepted
SynthNames == { n \in { <<"n", "s", "1">>, NAME_60 } : _is_valid_namespace_name(n) }

(***************************************************************************)
(* The download of one file: the body of the inner loop of                  *)
(* download_resources (lines 934-979), with the content of the file.        *)
(***************************************************************************)
\* clean_yaml_file of the advanced cleaner (lines 88-129) on a content:
\* False when the content does not parse or holds no document
AdvancedCleanupSucceeds(content) ==
  /\ ~content.malformed
  /\ \E i \in 1..Len(content.docs) : ~content.docs[i].null

\* _builtin_cleanup_k8s_metadata (lines 1019-1061) on a content: False when
\* _safe_read_file rejects the content or the content does not parse
BuiltinCleanupSucceeds(content) ==
  /\ _validate_yaml_content(content) = "ok"
  /\ ~content.malformed

\* _cleanup_k8s_metadata (lines 983-996) on a content
CleanupSucceeds(content, advanced) ==
  \/ advanced /\ AdvancedCleanupSucceeds(content)
  \/ BuiltinCleanupSucceeds(content)

\* `pattern in content.lower()` for one of the DANGEROUS_PATTERNS
HasDangerousPattern(content) ==
  \E pattern \in DANGEROUS_PATTERNS : Contains(Lower(content.text), pattern)

\* the file downloaded: deployment.yaml of namespace ns1
DownloadMinioPath == MinioPath(<<>>, NS1, DEPLOYMENT_YAML)

DownloadLocalPath == LocalPath(NS1, DEFAULT_BASE_ENV, <<"d", "e", "p", "l", "o", "y", "m", "e", "n", "t", "s">>, DEPLOYMENT_YAML)

\* lines 939-944: fget_object returns, having written the file, or raises
DownloadFetch ==
  /\ fn.pc = "ready"
  /\ fn.f = "download_one"
  /\ fn' = IF fn.fget = "ok"
           THEN [fn EXCEPT !.pc = "fetched", !.tree = @ \cup {DownloadLocalPath}]
           ELSE [fn EXCEPT !.pc = "done",
                           !.result = DownloadOne(@, DownloadMinioPath, DownloadLocalPath,
                                                  fn.fget, FALSE)]
  /\ UNCHANGED notFn

\* lines 946-969: the re-categorisation (logged only), the cleanup and the
\* ledger entry of the file
DownloadRecord ==
  /\ fn.pc = "fetched"
  /\ fn.f = "download_one"
  /\ fn' = [fn EXCEPT !.pc = "done",
                      !.cleanup_success = CleanupSucceeds(fn.content, fn.advanced),
                      !.result = DownloadOne(@, DownloadMinioPath, DownloadLocalPath, "ok",
                                             CleanupSucceeds(fn.content, fn.advanced))]
  /\ UNCHANGED notFn

(***************************************************************************)
(* Scans of one generator over an unchanged bucket, without faults: the     *)
(* objects go through _process_object_batch one by one, the limits are      *)
(* checked, the namespaces are appended to self.namespaces.                 *)
(***************************************************************************)
\* object keys of the bucket: manifests of namespace a directly below the
\* root and below the folders x and y, one with a name no keyword matches
SampleKeys ==
  { <<"a", "/", "d", "e", "p", "l", "o", "y", ".", "y", "a", "m", "l">>,
    <<"a", "/", "n", "o", "t", "e", "s", ".", "y", "a", "m", "l">>,
    <<"y", "/", "a", "/", "d", "e", "p", "l", "o", "y", ".", "y", "a", "m", "l">>,
    <<"x", "/", "a", "/", "d", "e", "p", "l", "o", "y", ".", "y", "a", "m", "l">>,
    <<"x", "/", "a", "/", "x", "-", "s", "v", "c", ".", "y", "a", "m", "l">>,
    <<"x", "/", "a", "/", "n", "o", "t", "e", "s", ".", "y", "a", "m", "l">> }

\* s starts with p
StartsWith(s, p) == Len(p) <= Len(s) /\ SubSeq(s, 1, Len(p)) = p

\* what list_objects(prefix=...) yields: keys that start with the prefix
ListedKeys(prefix) == { k \in SampleKeys : StartsWith(k, prefix) }

\* the object of a listing entry
KeyObject(key) == [object_name |-> key, size |-> 10]

\* lines 639-685 for one object: the ledger and namespace_resources after it
RescanObject ==
  /\ fn.pc = "process"
  /\ fn.f = "scan_minio_bucket"
  /\ fn.pos <= Len(fn.keys)
  /\ LET obj == KeyObject(fn.keys[fn.pos])
         out == ObjectOutcome(obj, fn.prefix)
     IN fn' =
          CASE out.kind = "failure" ->
                 [fn EXCEPT !.pos = @ + 1,
                            !.result = add_failure(@, obj.object_name, out.error, "none")]
            [] out.kind = "warning" ->
                 [fn EXCEPT !.pos = @ + 1,
                            !.result = add_warning(@, [about |-> "invalid_path",
                                                       name |-> obj.object_name])]
            [] out.kind = "success" ->
                 [fn EXCEPT !.pos = @ + 1,
                            !.result =
                               add_success(
                                 IF out.namespace \in DictKeys(fn.namespace_resources)
                                 THEN @
                                 ELSE [@ EXCEPT !.namespaces_found =
                                                   Append(@, out.namespace)],
                                 obj.object_name),
                            !.namespace_resources =
                               AddResource(@, out.namespace, out.resource_type,
                                           out.filename)]
  /\ UNCHANGED notFn

\* lines 607-632: the limits are checked and the scan returns, the empty
\* list after a ValidationError and self.namespaces otherwise
RescanReturn ==
  /\ fn.pc = "process"
  /\ fn.f = "scan_minio_bucket"
  /\ fn.pos > Len(fn.keys)
  /\ LET v == _validate_namespace_limits(fn.namespace_resources)
         namespaces == fn.self_namespaces \o ToNamespaceConfigs(fn.namespace_resources)
     IN fn' = IF v = "ok"
              THEN [fn EXCEPT !.pc = "returned",
                              !.self_namespaces = namespaces,
                              !.returned = Append(@, namespaces)]
              ELSE [fn EXCEPT !.pc = "returned",
                              !.result = add_failure(@, NameValidation, v, "none"),
                              !.returned = Append(@, <<>>)]
  /\ UNCHANGED notFn

\* scan_minio_bucket is called again on the same generator (lines 534-535:
\* fresh namespace_resources and ledger; self.namespaces is the attribute
\* set in __init__, line 315)
ScanAgain ==
  /\ fn.pc = "returned"
  /\ fn.f = "scan_minio_bucket"
  /\ Len(fn.returned) < MaxScans
  /\ fn' = [fn EXCEPT !.pc = "process", !.pos = 1, !.namespace_resources = <<>>,
                      !.result = ProcessingResult]
  /\ UNCHANGED notFn

(***************************************************************************)
(* Specifications.                                                         *)
(***************************************************************************)
\* state shared by all initial conditions: nothing has run yet
Quiet ==
  /\ scan = ScanLocals
  /\ result = ProcessingResult
  /\ scan_out = NoScanOut
  /\ self_namespaces = <<>>
  /\ alarm = "off"
  /\ handed = <<>>
  /\ output_tree = {}

\* neither the constructor nor a file write is under way
NoOtherCall ==
  /\ ctor = NoCtor
  /\ fs = NoWrite
  /\ fn = NoCall

\* the scanner and main() are not running
Idle ==
  /\ listing = <<>>
  /\ bucket_prefix = <<>>
  /\ batch_size = 1
  /\ Quiet
  /\ retry = RetryIdle("none", 0)
  /\ main = [MainLocals EXCEPT !.pc = "none"]

\* main() about to run against some bucket
Init ==
  /\ listing \in Listings(BucketObjects, MaxMainObjects)
  /\ bucket_prefix = <<>>
  /\ batch_size = MaxBatch
  /\ Quiet
  /\ NoOtherCall
  /\ retry = RetryIdle("none", 0)
  /\ main = MainLocals

ScanNext ==
  \/ ScanStart \/ RetryEnter \/ OperationReturns \/ OperationRaises
  \/ SleepReturns \/ DeadlineInListCall \/ DeadlineInSleep
  \/ ListReturned \/ ListRaised \/ ScanExcept \/ IterYield \/ IterExhausted \/ IterRaises
  \/ DeadlineInLoop \/ ProcessObject \/ DeadlineInObject
  \/ DeadlineAfterSuccess \/ BatchDone \/ ValidateLimits \/ Convert
  \/ DeadlineAfterLoop

Next ==
  \/ LoadConfig \/ Construct \/ (main.pc = "scan" /\ ScanNext) \/ MainAfterScan \/ MainScanRaised
  \/ DownloadMkdir \/ DownloadFile \/ DownloadNextDir \/ MainAfterDownload
  \/ GenerateNamespace \/ GenerateRootReadme \/ GenerateRaises \/ MainExit
  \/ Interrupt

Spec == Init /\ [][Next]_vars

\* a constructed generator about to scan some bucket, outside main()
InitScan ==
  /\ listing \in Listings(BucketObjects, MaxObjects)
  /\ bucket_prefix = <<>>
  /\ batch_size \in 1..MaxBatch
  /\ Quiet
  /\ NoOtherCall
  /\ retry = RetryIdle("none", 0)
  /\ main = [MainLocals EXCEPT !.pc = "none"]

SpecScan == InitScan /\ [][ScanNext]_vars

\* the decorator around an arbitrary operation, for every max_attempts
InitRetry ==
  /\ listing = <<>>
  /\ bucket_prefix = <<>>
  /\ batch_size = 1
  /\ Quiet
  /\ NoOtherCall
  /\ retry \in {RetryIdle("operation", n) : n \in 1..MaxAttempts}
  /\ main = [MainLocals EXCEPT !.pc = "none"]

RetryNext == RetryEnter \/ OperationReturns \/ OperationRaises \/ SleepReturns

SpecRetry == InitRetry /\ [][RetryNext]_vars

\* a constructor call with some arguments and some default cluster mapping
InitCtor ==
  /\ Idle
  /\ fs = NoWrite
  /\ fn = NoCall
  /\ \E environments \in Listings(EnvNames, MaxEnvs),
        base_env \in {<<>>, DEV, QA},
        default_clusters \in {{DEV, TEST, PREPROD, PROD},
                              {DEV, TEST, PREPROD, PROD, QA},
                              {DEV, QA}, {}} :
       ctor = [NoCtor EXCEPT !.pc = "start",
                             !.environments = environments,
                             !.base_env = base_env,
                             !.default_clusters = default_clusters]

CtorNext ==
  \/ CtorStart \/ RetryEnter \/ OperationReturns \/ OperationRaises
  \/ SleepReturns \/ CtorConnected \/ CtorConnectionFailed \/ CtorValidate

SpecCtor == InitCtor /\ [][CtorNext]_vars

\* the writer about to write some content to a path that is absent or
\* holds an older file
InitWrite ==
  /\ Idle
  /\ ctor = NoCtor
  /\ fn = NoCall
  /\ \E target \in SafeWriteTargets \cup DirectWriteTargets,
        n \in 1..MaxChunks,
        old \in {Absent, [exists |-> TRUE, data |-> <<0>>]} :
       fs = [NoWrite EXCEPT !.pc = "start", !.target = target,
                            !.content = [i \in 1..n |-> i],
                            !.old = old, !.canonical = old]

WriteNext ==
  \/ OpenForWriting \/ WriteChunk \/ CloseFile \/ RenameIntoPlace
  \/ SafeWriteFails \/ Crash

SpecWrite == InitWrite /\ [][WriteNext]_vars

\* the classifier about to be called with a key listed under a prefix
InitClassify ==
  /\ Idle
  /\ ctor = NoCtor
  /\ fs = NoWrite
  /\ \E segments \in SeqsUpTo(KeySegments, MaxSegments), prefix \in KeyPrefixes :
       fn = [pc |-> "ready", f |-> "_safe_parse_path", segments |-> segments,
             prefix |-> prefix,
             object_path |-> prefix \o Join(segments, <<"/">>),
             out |-> NoPath, inner |-> "none", raised |-> "none"]

SpecClassify == InitClassify /\ [][ClassifyCall]_vars

\* _process_object_batch about to process one listed object
InitGate ==
  /\ Idle
  /\ ctor = NoCtor
  /\ fs = NoWrite
  /\ \E segments \in SeqsUpTo(GateSegments, MaxSegments), size \in ObjectSizes :
       fn = [pc |-> "ready", f |-> "_process_object_batch",
             obj |-> [object_name |-> Join(segments, <<"/">>), size |-> size],
             prefix |-> <<>>,
             out |-> [kind |-> "none", error |-> "none", namespace |-> <<>>,
                      filename |-> <<>>, resource_type |-> <<>>]]

SpecGate == InitGate /\ [][GateCall]_vars

\* the categoriser about to be called with a file name and a content
InitCategorize ==
  /\ Idle
  /\ ctor = NoCtor
  /\ fs = NoWrite
  /\ \E filename \in CategorizeFilenames, content \in SampleContents :
       fn = [pc |-> "ready", f |-> "_categorize_resource", filename |-> filename,
             content |-> content, out |-> <<>>]

SpecCategorize == InitCategorize /\ [][CategorizeCall]_vars

\* the sanitizer about to be run on a document; the built-in cleanup has no
\* preserve_fields
InitClean ==
  /\ Idle
  /\ ctor = NoCtor
  /\ fs = NoWrite
  /\ \E doc \in SampleManifests, advanced \in BOOLEAN,
        preserve_fields \in SamplePreserveFields :
       /\ ~advanced => preserve_fields = {}
       /\ fn = [pc |-> "ready", f |-> "_cleanup_k8s_metadata", doc |-> doc,
                advanced |-> advanced, preserve_fields |-> preserve_fields,
                once |-> EmptyDict, twice |-> EmptyDict]

SpecClean == InitClean /\ [][CleanCall]_vars

\* a generator that passed the constructor's check (base_env is one of the
\* environments) about to plan the overlays of a namespace
InitOverlay ==
  /\ Idle
  /\ ctor = NoCtor
  /\ fs = NoWrite
  /\ \E environments \in Listings(OverlayEnvNames, MaxOverlayEnvs) :
       \E b \in 1..Len(environments) :
         fn = [pc |-> "ready", f |-> "_generate_environment_overlays",
               name |-> <<"n", "s", "1">>, environments |-> environments,
               base_env |-> environments[b], overlay_envs |-> <<>>, configs |-> <<>>]

OverlayNext == OverlayStart \/ OverlayStep \/ OverlayReturn

SpecOverlay == InitOverlay /\ [][OverlayNext]_vars

\* a namespace with claim files under the base environment
InitStorage ==
  /\ Idle
  /\ ctor = NoCtor
  /\ fs = NoWrite
  /\ \E files \in PvcFileSets :
       fn = [pc |-> "ready", f |-> "_detect_pvc_storage_requirements", files |-> files,
             detected_pvcs |-> <<>>, i |-> 1,
             storage_configs |-> [test |-> <<>>, preprod |-> <<>>, prod |-> <<>>]]

StorageNext == PvcDetect \/ PvcScale \/ PvcReturn

SpecStorage == InitStorage /\ [][StorageNext]_vars

\* a generator that passed the constructor's check (every environment has a
\* default cluster mapping, base_env is one of the environments) and a
\* namespace the scanner accepted.  The default mapping holds the
\* environments alone or also the rest of the four default names.
InitSynth ==
  /\ Idle
  /\ ctor = NoCtor
  /\ fs = NoWrite
  /\ \E environments \in Listings(OverlayEnvNames, MaxOverlayEnvs), name \in SynthNames,
        more \in { {}, ClusterMappingFields } :
       \E b \in 1..Len(environments) :
         LET keys == { environments[i] : i \in 1..Len(environments) } \cup more
             default_clusters == [env \in keys |-> Endpoint(env)]
         IN /\ _validate_environment_configuration(environments, environments[b], keys) = "ok"
            /\ fn = [pc |-> "ready", f |-> "synthesis", name |-> name,
                     environments |-> environments, base_env |-> environments[b],
                     default_clusters |-> default_clusters, cluster_mapping |-> <<>>,
                     apps |-> <<>>, base_kustomization |-> <<>>, overlays |-> <<>>,
                     raised |-> "none"]

SynthNext == SynthConvert \/ SynthCollect \/ SynthWriteApp \/ SynthBase \/ SynthOverlay

SpecSynth == InitSynth /\ [][SynthNext]_vars

\* one file of a scanned namespace about to be downloaded: what the object
\* holds, what fget_object does, whether the advanced cleaner can be imported
InitDownload ==
  /\ Idle
  /\ ctor = NoCtor
  /\ fs = NoWrite
  /\ \E content \in SampleContents, fget \in {"ok", "S3Error", "OSError"},
        advanced \in BOOLEAN :
       fn = [pc |-> "ready", f |-> "download_one", content |-> content, fget |-> fget,
             advanced |-> advanced, cleanup_success |-> FALSE,
             result |-> ProcessingResult, tree |-> {}]

DownloadNext == DownloadFetch \/ DownloadRecord

SpecDownload == InitDownload /\ [][DownloadNext]_vars

\* a generator with an empty or a one-folder prefix about to scan a bucket
\* whose listing yields every key once
InitRescan ==
  /\ Idle
  /\ ctor = NoCtor
  /\ fs = NoWrite
  /\ \E prefix \in { <<>>, <<"x">> } :
       \E keys \in Listings(ListedKeys(prefix), MaxObjects) :
         fn = [pc |-> "process", f |-> "scan_minio_bucket", prefix |-> prefix,
               keys |-> keys, pos |-> 1, namespace_resources |-> <<>>,
               result |-> ProcessingResult, self_namespaces |-> <<>>,
               returned |-> <<>>]

RescanNext == RescanObject \/ RescanReturn \/ ScanAgain

SpecRescan == InitRescan /\ [][RescanNext]_vars

(***************************************************************************)
(* Properties.                                                             *)
(***************************************************************************)
RECURSIVE Flatten(_)
\* the concatenation of a sequence of sequences
Flatten(q) == IF q = <<>> THEN <<>> ELSE Head(q) \o Flatten(Tail(q))

\* ceil(n / b) for b >= 1
CeilDiv(n, b) == (n + b - 1) \div b

\* the number of entries in a ledger, namespaces aside
LedgerEntries(r) == Len(r.success_files) + Len(r.failed_files) + Len(r.warnings)

ConnectionErrors ==
  {"S3Error", "MinioConnectionError", "NetworkError", "RetryExhaustedError"}

\* the name under which the scan records each connection-level error
ConnectionErrorName(e) ==
  CASE e = "S3Error" -> NameMinioConnection
    [] e = "MinioConnectionError" -> NameMinioConnection
    [] e = "NetworkError" -> NameNetworkError
    [] e = "RetryExhaustedError" -> NameRetryExhausted

C3_RetryCounts ==
  /\ retry.status = "returned" =>
       /\ retry.value = retry.calls
       /\ retry.calls >= 1
       /\ retry.calls <= retry.max_attempts
       /\ retry.sleeps = retry.calls - 1
       /\ retry.raised = "none"
  /\ retry.status = "raised" /\ retry.raised = "RetryExhaustedError" =>
       /\ retry.calls = retry.max_attempts
       /\ retry.sleeps = retry.max_attempts - 1
       /\ retry.cause = retry.last_exception
       /\ retry.cause # "none"

\* C3 witness: the second of three allowed calls returned
C3_Witness ==
  /\ retry.wrapped = "operation"
  /\ retry.max_attempts = 3
  /\ retry.status = "returned"
  /\ retry.calls = 2
  /\ retry.sleeps = 1
  /\ retry.last_exception = "NetworkError"

\* the error classes claim C4 calls non-retryable
NonRetryableClasses ==
  {"ValidationError", "SecurityError", "FileSizeError", "ContentValidationError"}

\* C4: when the last error raised by the wrapped operation is ValidationError,
\* SecurityError, FileSizeError or a subclass, the wrapper has raised that
\* very error: it is not sleeping, not calling again, has not returned, has
\* slept only after the earlier failures, and RetryExhaustedError is not
\* what it raised.
C4_NonRetryablePropagates ==
  retry.last_exception \in NonRetryableClasses =>
    /\ retry.status = "raised"
    /\ retry.raised = retry.last_exception
    /\ retry.cause = "none"
    /\ retry.sleeps = retry.calls - 1
    /\ ~ENABLED RetryNext

\* C4 witness: ContentValidationError on the second call, after one retry
C4_Witness ==
  /\ retry.status = "raised"
  /\ retry.raised = "ContentValidationError"
  /\ retry.calls = 2
  /\ retry.sleeps = 1
  /\ retry.max_attempts = 3

\* the failure entry the TimeoutError clause of scan_minio_bucket records
TimeoutEntry == [filename |-> NameTimeout, error |-> "TimeoutError", cause |-> "none"]

\* C5: once the deadline has fired during a scan, the TimeoutError is on its
\* way out of the retry wrapper or in the scan's except clauses, or the scan
\* has returned with the timeout failure as its last failure; the wrapper
\* does not sleep, call again or return, and no further object is processed.
C5_DeadlineEndsScan ==
  alarm = "fired" =>
    /\ scan.pc \in {"list_call", "except", "failed"}
    /\ scan.pc = "list_call" =>
         retry.status = "raised" /\ retry.raised = "TimeoutError"
    /\ scan.pc \in {"except", "failed"} => scan.exc = "TimeoutError"
    /\ scan.pc = "failed" =>
         /\ Len(result.failed_files) >= 1
         /\ result.failed_files[Len(result.failed_files)] = TimeoutEntry

\* C6 as stated: a scan that returned through the TimeoutError clause after
\* objects had been validated returns the partial namespace map, not an
\* empty list, together with the timeout failure.
C6_TimeoutReturnsPartialMap ==
  /\ scan.pc = "failed"
  /\ scan.exc = "TimeoutError"
  /\ scan.namespace_resources # <<>>
  => /\ scan_out.namespaces = ToNamespaceConfigs(scan.namespace_resources)
     /\ scan_out.namespaces # <<>>
     /\ TimeoutEntry \in {result.failed_files[i] : i \in 1..Len(result.failed_files)}

\* C6 amended: a scan whose TimeoutError reached its except clauses returns
\* an empty namespace list, whatever had been validated, with the timeout
\* failure as the last failure; the namespaces discovered so far remain
\* listed in the ledger's namespaces_found only.
C6_TimeoutReturnsEmptyList ==
  scan.pc = "failed" /\ scan.exc = "TimeoutError" =>
    /\ scan_out.status = "returned"
    /\ scan_out.namespaces = <<>>
    /\ Len(result.failed_files) >= 1
    /\ result.failed_files[Len(result.failed_files)] = TimeoutEntry
    /\ result.namespaces_found =
         [i \in 1..Len(scan.namespace_resources) |-> scan.namespace_resources[i].key]

\* C6 witness: the deadline fired in the loop after a manifest of namespace
\* "a" had been validated, and the scan returned
C6_Witness ==
  /\ scan.pc = "failed"
  /\ scan.exc = "TimeoutError"
  /\ Len(result.success_files) >= 1
  /\ DictKeys(scan.namespace_resources) = {<<"a">>}
  /\ scan_out.namespaces = <<>>

RECURSIVE FileCount(_)
\* the number of files of a namespace over all its categories
FileCount(resources) ==
  IF resources = <<>> THEN 0
  ELSE Len(Head(resources).value) + FileCount(Tail(resources))

\* C7: a scan that returned a non-empty namespace list found at most
\* MAX_NAMESPACES namespaces, each holding at most MAX_FILES_PER_NAMESPACE
\* files over all its categories; a scan that found more returned an empty
\* list with a failure recorded.
C7_CeilingsHold ==
  /\ scan_out.status = "returned" /\ scan_out.namespaces # <<>> =>
       /\ Len(scan.namespace_resources) <= MAX_NAMESPACES
       /\ \A i \in 1..Len(scan.namespace_resources) :
            FileCount(scan.namespace_resources[i].value) <= MAX_FILES_PER_NAMESPACE
  /\ /\ scan_out.status = "returned"
     /\ \/ Len(scan.namespace_resources) > MAX_NAMESPACES
        \/ \E i \in 1..Len(scan.namespace_resources) :
             FileCount(scan.namespace_resources[i].value) > MAX_FILES_PER_NAMESPACE
     => scan_out.namespaces = <<>> /\ has_failures(result)

\* C8: a run of main() that went through scan, download and generation
\* exits with status 0 exactly when the consolidated ledger holds no failure
\* and no warning, and with status 2 otherwise.
C8_ExitStatusReflectsLedger ==
  main.pc = "exited" /\ main.exit_status \in {0, 2} =>
    LET clean == /\ main.overall_result.failed_files = <<>>
                 /\ main.overall_result.warnings = <<>>
    IN /\ main.exit_status = 0 <=> clean
       /\ main.exit_status = 2 <=> ~clean

\* C9: a run of main() that exits with status 1 has written no file of the
\* output tree.
C9_ExitOneWroteNothing ==
  main.pc = "exited" /\ main.exit_status = 1 => output_tree = {}

\* C10: at the end of a run that went through all stages the consolidated
\* ledger holds, in order, every success, failure, warning and discovered
\* namespace of the scan's ledger followed by those of the download ledger.
C10_ConsolidatedLedgerComplete ==
  main.pc = "exited" /\ main.exit_status \in {0, 2} =>
    /\ main.overall_result.success_files =
         result.success_files \o main.download_result.success_files
    /\ main.overall_result.failed_files =
         result.failed_files \o main.download_result.failed_files
    /\ main.overall_result.warnings =
         result.warnings \o main.download_result.warnings
    /\ main.overall_result.namespaces_found =
         result.namespaces_found \o main.download_result.namespaces_found

\* the arguments of a constructor call are valid: every environment in force
\* has a default cluster and the base environment is one of them
ValidEnvironments ==
  LET environments == IF ctor.environments # <<>> THEN ctor.environments
                      ELSE DEFAULT_ENVIRONMENTS
      base_env == IF ctor.base_env # <<>> THEN ctor.base_env ELSE DEFAULT_BASE_ENV
  IN /\ \A i \in 1..Len(environments) : environments[i] \in ctor.default_clusters
     /\ \E i \in 1..Len(environments) : environments[i] = base_env

\* C11: a constructor call whose environments are invalid raises
\* ConfigurationError, and it does so before the object store has been
\* called: the connection test has not run.
C11_ConfigurationErrorBeforeNetwork ==
  /\ ctor.pc \in {"raised", "constructed"} /\ ~ValidEnvironments =>
       ctor.pc = "raised" /\ ctor.raised = "ConfigurationError"
  /\ ctor.raised = "ConfigurationError" => retry.calls = 0
  /\ ~ValidEnvironments /\ ctor.pc \notin {"none", "start"} => retry.calls = 0

\* C12: whatever file is written and wherever the process crashes, the
\* canonical path holds what it held before the write or the complete new
\* content.
C12_WritesAreAtomic ==
  \/ fs.canonical = fs.old
  \/ fs.canonical = [exists |-> TRUE, data |-> fs.content]

\* the non-empty segments of the key of a classifier call
KeyParts == SelectSeq(fn.segments, LAMBDA s : s # <<>>)

\* a DNS-1123 label: 1 to 63 characters of [a-z0-9-], the first and the
\* last alphanumeric
IsDns1123Label(n) ==
  /\ Len(n) >= 1
  /\ Len(n) <= 63
  /\ \A i \in 1..Len(n) : n[i] \in LowerAlnum \cup {"-"}
  /\ n[1] # "-"
  /\ n[Len(n)] # "-"

\* C13: a classifier call on a key with fewer than two segments ends with
\* PathValidationError raised to the caller; on a key with at least two
\* segments whose second-to-last is a valid namespace it returns
\* (second-to-last segment, last segment).
C13_ClassifierContract ==
  fn.f = "_safe_parse_path" /\ fn.pc = "done" =>
    /\ Len(KeyParts) < 2 => fn.raised = "PathValidationError"
    /\ Len(KeyParts) >= 2 /\ IsDns1123Label(KeyParts[Len(KeyParts) - 1]) =>
         /\ fn.raised = "none"
         /\ ~fn.out.none
         /\ fn.out.namespace = KeyParts[Len(KeyParts) - 1]
         /\ fn.out.filename = KeyParts[Len(KeyParts)]

\* C14: a classifier call on a key with at least two segments accepts the
\* namespace segment exactly when it is a DNS-1123 label, and rejects every
\* other one with NamespaceValidationError raised to the caller.
C14_NamespaceGrammar ==
  fn.f = "_safe_parse_path" /\ fn.pc = "done" /\ Len(KeyParts) >= 2 =>
    LET n == KeyParts[Len(KeyParts) - 1]
    IN IF IsDns1123Label(n)
       THEN fn.raised = "none" /\ ~fn.out.none /\ fn.out.namespace = n
       ELSE fn.raised = "NamespaceValidationError"

\* C15: an object larger than MAX_FILE_SIZE_MB mebibytes is recorded as
\* failed with FileSizeError, whatever its file extension.
C15_OversizeIsFileSizeError ==
  /\ fn.f = "_process_object_batch"
  /\ fn.pc = "done"
  /\ fn.obj.size > MAX_FILE_SIZE_MB * 1024 * 1024
  => fn.out.kind = "failure" /\ fn.out.error = "FileSizeError"

\* the documents of a content that carry a kind of the kind-to-category table
MappedDocs(content) ==
  SelectSeq(content.docs,
            LAMBDA d : ~d.null /\ d.has_kind /\ KindIsMapped(Lower(d.kind)))

\* C16: a categoriser call with a content whose (first) mapped kind has
\* category c returns c whatever the file name; with no content or no
\* mapped kind it returns what the file name keywords give.
C16_ContentTakesPrecedence ==
  fn.f = "_categorize_resource" /\ fn.pc = "done" =>
    IF ~fn.content.absent /\ MappedDocs(fn.content) # <<>>
    THEN fn.out = KindCategory(Lower(MappedDocs(fn.content)[1].kind))
    ELSE fn.out = _categorize_by_filename(fn.filename)

\* C17: cleaning what a pass of the sanitizer produced changes nothing,
\* whichever of the two cleaners runs.
C17_SanitizeIdempotent ==
  fn.f = "_cleanup_k8s_metadata" /\ fn.pc = "done" => fn.twice = fn.once

\* a Deployment whose pod template metadata and annotations were cleaned by
\* the advanced cleaner, cleaned a second time
C17_Witness ==
  /\ fn.f = "_cleanup_k8s_metadata"
  /\ fn.pc = "done"
  /\ fn.advanced
  /\ "kind" \in DOMAIN fn.doc
  /\ fn.doc["kind"] = "Deployment"
  /\ "metadata" \in DOMAIN fn.doc
  /\ "annotations" \in DOMAIN fn.doc["metadata"]
  /\ "annotations" \notin DOMAIN fn.once["metadata"]
  /\ "spec" \in DOMAIN fn.doc
  /\ fn.once["spec"] # fn.doc["spec"]

\* the blacklisted metadata fields a cleaned metadata mapping still holds
\* although the caller did not ask to preserve them
LeftoverMetadata(metadata, preserve_fields) ==
  DOMAIN metadata \cap (METADATA_BLACKLIST \ preserve_fields)

\* C18: whatever the document, with or without apiVersion and kind, the
\* cleaned document has no top-level status and its metadata has no
\* blacklisted field other than those of preserve_fields.
C18_StatusAndMetadataRemoved ==
  fn.f = "_cleanup_k8s_metadata" /\ fn.pc # "ready" =>
    /\ "status" \notin DOMAIN fn.once
    /\ "metadata" \in DOMAIN fn.once =>
         LeftoverMetadata(fn.once["metadata"], fn.preserve_fields) = {}

\* the kind of a document, "" without one
KindOf(doc) == IF "kind" \in DOMAIN doc THEN doc["kind"] ELSE ""

\* the spec of a document, the empty mapping without one
SpecOf(doc) == IF "spec" \in DOMAIN doc THEN doc["spec"] ELSE EmptyDict

\* the metadata of the pod template of a spec, the empty mapping without one
TemplateMetadata(spec) ==
  IF "template" \in DOMAIN spec /\ "metadata" \in DOMAIN spec["template"]
  THEN spec["template"]["metadata"]
  ELSE EmptyDict

\* the keys of m[key], none when the key is absent
KeysUnder(m, key) == IF key \in DOMAIN m THEN DOMAIN m[key] ELSE {}

\* C19: after cleaning, a Service has no spec.clusterIP, no spec.clusterIPs
\* and, of type LoadBalancer, no spec.healthCheckNodePort; a
\* PersistentVolumeClaim has no spec.volumeName and no volumeMode
\* 'Filesystem', while another volumeMode is kept; the pod template metadata
\* of a Deployment has no blacklisted field, annotation or label.
C19_KindSpecificCleanup ==
  fn.f = "_cleanup_k8s_metadata" /\ fn.pc # "ready" =>
    LET spec == SpecOf(fn.once)
        before == SpecOf(fn.doc)
        template == TemplateMetadata(spec)
    IN /\ KindOf(fn.doc) = "Service" =>
            /\ DOMAIN spec \cap {"clusterIP", "clusterIPs"} = {}
            /\ "type" \in DOMAIN spec /\ spec["type"] = "LoadBalancer" =>
                 "healthCheckNodePort" \notin DOMAIN spec
       /\ KindOf(fn.doc) = "PersistentVolumeClaim" =>
            /\ "volumeName" \notin DOMAIN spec
            /\ "volumeMode" \in DOMAIN spec => spec["volumeMode"] # "Filesystem"
            /\ "volumeMode" \in DOMAIN before /\ before["volumeMode"] # "Filesystem" =>
                 "volumeMode" \in DOMAIN spec /\ spec["volumeMode"] = before["volumeMode"]
       /\ KindOf(fn.doc) = "Deployment" =>
            /\ LeftoverMetadata(template, fn.preserve_fields) = {}
            /\ KeysUnder(template, "annotations") \cap ANNOTATION_BLACKLIST = {}
            /\ KeysUnder(template, "labels") \cap LABEL_BLACKLIST = {}

\* the replica count of the k-th non-base environment by its position
ReplicasByPosition(k) ==
  IF k = 1 THEN DEFAULT_REPLICAS_TEST
  ELSE IF k = 2 THEN DEFAULT_REPLICAS_PREPROD
  ELSE DEFAULT_REPLICAS_PROD

\* C20: wherever the base environment stands in the list, the overlay of
\* the first non-base environment has 1 replica, of the second 2, of the
\* third and later ones 3.
C20_ReplicasByOverlayPosition ==
  fn.f = "_generate_environment_overlays" =>
    \A k \in 1..Len(fn.configs) : fn.configs[k].replicas = ReplicasByPosition(k)

\* C21: for a claim requesting '<m><u>', the sizes of the test, preprod and
\* prod tiers are max(1, floor(m / 2)), max(1, 2 m) and max(1, 5 m), each
\* followed by u.
C21_StorageScaling ==
  fn.f = "_detect_pvc_storage_requirements" /\ fn.pc = "done" =>
    \A i \in 1..Len(fn.files) :
      fn.files[i].shape = "ok" =>
        LET file == fn.files[i]
            pvc_name == fn.detected_pvcs[i].pvc_name
        IN /\ fn.storage_configs.test[pvc_name] = StrOf(Max(1, file.m \div 2)) \o file.u
           /\ fn.storage_configs.preprod[pvc_name] = StrOf(Max(1, 2 * file.m)) \o file.u
           /\ fn.storage_configs.prod[pvc_name] = StrOf(Max(1, 5 * file.m)) \o file.u

\* a sync policy asks for automated sync when it holds an automated block
RequestsAutomatedSync(syncPolicy) == "automated" \in DOMAIN syncPolicy

\* C22: the Application descriptors of the first two environments have
\* automated sync with prune and self-heal; the descriptor of every later
\* environment requests no automated sync.
C22_SyncPolicyByPosition ==
  fn.f = "synthesis" =>
    \A k \in 1..Len(fn.apps) :
      IF k <= 2
      THEN /\ RequestsAutomatedSync(fn.apps[k].syncPolicy)
           /\ fn.apps[k].syncPolicy["automated"] = [prune |-> TRUE, selfHeal |-> TRUE]
      ELSE ~RequestsAutomatedSync(fn.apps[k].syncPolicy)

\* C23: with every environment in the default cluster mapping and the base
\* environment in the list, synthesis ends without an error, with one
\* Application descriptor per environment (name, source path, destination
\* namespace and server as specified) and one overlay per non-base
\* environment.
C23_OneDescriptorPerEnvironment ==
  fn.f = "synthesis" /\ fn.pc = "done" =>
    /\ fn.raised = "none"
    /\ Len(fn.apps) = Len(fn.environments)
    /\ \A k \in 1..Len(fn.apps) :
         LET env == fn.environments[k]
         IN /\ fn.apps[k].name = fn.name \o <<"-">> \o env
            /\ fn.apps[k].path =
                 Join(<<BASE_NAMESPACE_DIR, fn.name, ENVIRONMENTS_DIR, env>>, <<"/">>)
            /\ fn.apps[k].namespace = fn.name \o <<"-">> \o env
            /\ fn.apps[k].server = fn.default_clusters[env]
    /\ Len(fn.overlays) = Len(OverlayEnvs(fn.environments, fn.base_env))

\* the target namespace names written so far
TargetNamespaces ==
  { fn.apps[k].namespace : k \in 1..Len(fn.apps) }
  \cup { fn.base_kustomization[k].namespace : k \in 1..Len(fn.base_kustomization) }
  \cup { fn.overlays[k].namespace : k \in 1..Len(fn.overlays) }

\* C30: every target namespace name written to an Application destination
\* or a kustomization is a DNS-1123 label of at most 63 characters.
C30_TargetNamespaceIsLabel ==
  fn.f = "synthesis" => \A n \in TargetNamespaces : IsDns1123Label(n)

\* the number of entries of a sequence that satisfy Test
CountOf(s, Test(_)) == Len(SelectSeq(s, Test))

\* C24: a downloaded manifest whose content holds a dangerous pattern is
\* not left in the output tree, is not recorded as a success, and is
\* recorded as a failure.
C24_DangerousContentSkipped ==
  fn.f = "download_one" /\ fn.pc = "done" /\ fn.fget = "ok"
  /\ HasDangerousPattern(fn.content) =>
    /\ DownloadLocalPath \notin fn.tree
    /\ CountOf(fn.result.success_files, LAMBDA s : s = DownloadLocalPath) = 0
    /\ Len(fn.result.failed_files) > 0

\* C25: a file that was downloaded and whose cleanup succeeded is recorded
\* exactly once as a success and never as a failure.
C25_CleanedFileIsSuccess ==
  fn.f = "download_one" /\ fn.pc = "done" /\ fn.fget = "ok" /\ fn.cleanup_success =>
    /\ CountOf(fn.result.success_files, LAMBDA s : s = DownloadLocalPath) = 1
    /\ Len(fn.result.failed_files) = 0

\* the keys processed so far in the running scan
ProcessedKeys == { fn.keys[i] : i \in 1..(fn.pos - 1) }

\* C26: every object the scanner categorised as 'other' has a warning entry
\* in the ledger of the scan.
C26_OtherIsWarned ==
  fn.f = "scan_minio_bucket" =>
    \A key \in ProcessedKeys :
      LET out == ObjectOutcome(KeyObject(key), fn.prefix)
      IN out.kind = "success" /\ out.resource_type = OTHER_CATEGORY =>
           \E i \in 1..Len(fn.result.warnings) : fn.result.warnings[i].name = key

\* s holds no element twice
NoRepeats(s) == \A i, j \in 1..Len(s) : i # j => s[i] # s[j]

\* C27: in namespace_resources no file name occurs twice in the list of a
\* (namespace, category) pair.
C27_ResourcesAreSets ==
  fn.f = "scan_minio_bucket" =>
    \A n \in 1..Len(fn.namespace_resources) :
      \A c \in 1..Len(fn.namespace_resources[n].value) :
        NoRepeats(fn.namespace_resources[n].value[c].value)

\* C28: for every object recorded as a success, the key the download stage
\* requests for its (namespace, filename) is the object's key.
C28_KeyRoundTrip ==
  fn.f = "scan_minio_bucket" =>
    \A i \in 1..Len(fn.result.success_files) :
      LET key == fn.result.success_files[i]
          out == ObjectOutcome(KeyObject(key), fn.prefix)
      IN MinioPath(fn.prefix, out.namespace, out.filename) = key

\* C29: two scans of the unchanged bucket return the same namespace list,
\* and self.namespaces holds no namespace name twice.
C29_RescanRepeatable ==
  fn.f = "scan_minio_bucket" =>
    /\ Len(fn.returned) = 2 => fn.returned[1] = fn.returned[2]
    /\ NoRepeats([i \in 1..Len(fn.self_namespaces) |-> fn.self_namespaces[i].name])

====
